---------------------------- MODULE Spec2Model ----------------------------
(***************************************************************************)
(* A model of RecommendationEngine (src/recommendation_engine.py): the     *)
(* engine's three fields, prepare_data, the title resolver and the         *)
(* recommend_* entry points.                                               *)
(*                                                                         *)
(* Text is a sequence of one-character strings.  A position in a table or  *)
(* a matrix is 1-based here (Python's position p is p + 1); the resolver's *)
(* "no index" stays -1.  A resolver score is an exact fraction <<num, den>>*)
(* so that comparisons with 0.5 and 0.9 are those of the code.  A cosine   *)
(* similarity is an integer in thousandths.                                *)
(***************************************************************************)
EXTENDS Integers, Sequences, FiniteSets, TLC

(* ------------------------------ bounds -------------------------------- *)

\* longest corpus handed to prepare_data
MaxCorpus == 3
\* n_recommendations ranges over -MaxNeg .. MaxN
MaxN == 2
MaxNeg == 2

(* --------------------------- text helpers ----------------------------- *)

\* str.lower() on one character
Lower(c) ==
    IF c = "A" THEN "a" ELSE IF c = "B" THEN "b" ELSE c

\* str.lower()
RECURSIVE LowerStr(_)
LowerStr(s) == IF s = <<>> THEN <<>> ELSE <<Lower(Head(s))>> \o LowerStr(Tail(s))

\* the characters the regular expression class \w matches
WordChars == {"a", "b", "c", "d", "e", "x", "y", "z", "A", "B"}

\* the characters the regular expression class \s matches
SpaceChars == {" "}

\* re.sub(r'[^\w\s]', '', s): drop what is neither \w nor \s
RECURSIVE StripPunct(_)
StripPunct(s) ==
    IF s = <<>> THEN <<>>
    ELSE IF Head(s) \in WordChars \cup SpaceChars
         THEN <<Head(s)>> \o StripPunct(Tail(s))
         ELSE StripPunct(Tail(s))

\* str.split(): the maximal runs of non-space characters, in order
RECURSIVE SplitFrom(_, _)
SplitFrom(s, cur) ==
    IF s = <<>> THEN (IF cur = <<>> THEN <<>> ELSE <<cur>>)
    ELSE IF Head(s) \in SpaceChars
         THEN (IF cur = <<>> THEN <<>> ELSE <<cur>>) \o SplitFrom(Tail(s), <<>>)
         ELSE SplitFrom(Tail(s), Append(cur, Head(s)))

Split(s) == SplitFrom(s, <<>>)

\* ' '.join(words)
RECURSIVE Join(_)
Join(words) ==
    IF words = <<>> THEN <<>>
    ELSE IF Len(words) = 1 THEN words[1]
    ELSE words[1] \o <<" ">> \o Join(Tail(words))

\* RecommendationEngine._normalize_title
NormalizeTitle(title) == Join(Split(StripPunct(LowerStr(title))))

\* Python's `a in b` on strings: a occurs in b as a contiguous run
Contains(a, b) ==
    \E i \in 0..(Len(b) - Len(a)) : \A k \in 1..Len(a) : b[i + k] = a[k]

(* ------------------- difflib.SequenceMatcher.ratio -------------------- *)

\* length of the common run that starts at a[i] and b[j], within a[..ahi], b[..bhi]
RECURSIVE RunLen(_, _, _, _, _, _)
RunLen(a, b, i, j, ahi, bhi) ==
    IF i > ahi \/ j > bhi \/ a[i] # b[j] THEN 0
    ELSE 1 + RunLen(a, b, i + 1, j + 1, ahi, bhi)

\* find_longest_match: the longest common block of a[alo..ahi] and b[blo..bhi];
\* of the longest ones the one starting earliest in a, then earliest in b
FindLongestMatch(a, b, alo, ahi, blo, bhi) ==
    LET cand == {<<i, j>> : i \in alo..ahi, j \in blo..bhi}
        size(p) == RunLen(a, b, p[1], p[2], ahi, bhi)
        bestsize == IF cand = {} THEN 0
                    ELSE CHOOSE k \in {size(p) : p \in cand} :
                             \A p \in cand : size(p) <= k
        longest == {p \in cand : size(p) = bestsize}
        best == CHOOSE p \in longest :
                    \A q \in longest : p[1] < q[1] \/ (p[1] = q[1] /\ p[2] <= q[2])
    IN  IF bestsize = 0 THEN <<alo, blo, 0>> ELSE <<best[1], best[2], bestsize>>

\* get_matching_blocks: the total size of the blocks found by matching the
\* longest block and then, recursively, the pieces left and right of it
RECURSIVE MatchingChars(_, _, _, _, _, _)
MatchingChars(a, b, alo, ahi, blo, bhi) ==
    IF alo > ahi \/ blo > bhi THEN 0
    ELSE LET m == FindLongestMatch(a, b, alo, ahi, blo, bhi)
         IN  IF m[3] = 0 THEN 0
             ELSE m[3]
                  + MatchingChars(a, b, alo, m[1] - 1, blo, m[2] - 1)
                  + MatchingChars(a, b, m[1] + m[3], ahi, m[2] + m[3], bhi)

\* SequenceMatcher(None, a, b).ratio() = 2.0 * matches / (len(a) + len(b)),
\* and 1.0 when both are empty
Ratio(a, b) ==
    IF Len(a) + Len(b) = 0 THEN <<1, 1>>
    ELSE <<2 * MatchingChars(a, b, 1, Len(a), 1, Len(b)), Len(a) + Len(b)>>

\* comparisons of two fractions with positive denominators
FracLt(p, q) == p[1] * q[2] < q[1] * p[2]
FracEq(p, q) == p[1] * q[2] = q[1] * p[2]
FracGt(p, q) == FracLt(q, p)


(* ------------------------------ the items ----------------------------- *)

\* a field the item's dict does not have
Absent == <<"<absent>">>

Txt_A        == <<"A">>
Txt_a        == <<"a">>
Txt_A_dash   == <<"A", "-">>
Txt_abxcde   == <<"a", "b", "x", "c", "d", "e">>
Txt_xy_zz    == <<"x", "y", " ", "z", "z">>
Txt_be       == <<"b", "e">>
Txt_zz_abcde == <<"z", "z", " ", "a", "b", "c", "d", "e">>
Txt_xy_abcdea   == <<"x", "y", " ", "a", "b", "c", "d", "e", "a">>
Txt_xy_abcdeazz == <<"x", "y", " ", "a", "b", "c", "d", "e", "a", "z", "z">>

\* The movie dicts the callers hand over (TMDB records cut to the fields the
\* engine reads).  polarity stands for what TextBlob(text).sentiment.polarity
\* yields on the overview, in thousandths; review_polarities has one entry for
\* each review of movie['reviews']['results']: <<>> for a review without
\* content, <<p>> for one whose content has polarity p.  The polarities are
\* multiples of 10 chosen so that every mean and blend below is a whole number
\* of thousandths.
Movie(id, title, overview, vote, pol, revs) ==
    [id |-> id, title |-> title, overview |-> overview, vote_average |-> vote,
     polarity |-> pol, review_polarities |-> revs]

\* M1 and M2 differ in the case of the title only; M3's text holds no term
\* (single letters and a stop word); M4 shares a word with M1 and M2
M1 == Movie(1, Txt_A,      Txt_xy_zz,    7, 500,  <<<<800>>, <<400>>>>)
M2 == Movie(2, Txt_a,      Txt_xy_zz,    8, 500,  <<>>)
M3 == Movie(3, Txt_A_dash, Txt_be,       5, 0,    <<>>)
M4 == Movie(4, Txt_abxcde, Txt_zz_abcde, 9, -200, <<<<600>>>>)

\* a movie for the keyword fallback: SequenceMatcher gives its title and the
\* query "xy abcdea" the ratio 2 * 9 / (9 + 11) = 0.9
M5 == Movie(5, Txt_xy_abcdeazz, Txt_be, 6, 0, <<>>)

Pool == {M1, M2, M3, M4}

\* the sequences without repetition of at most n movies of S
RECURSIVE SeqsUpTo(_, _)
SeqsUpTo(S, n) ==
    IF n = 0 THEN {<<>>}
    ELSE LET shorter == SeqsUpTo(S, n - 1)
         IN  shorter \cup
             {Append(c, m) : c \in {d \in shorter : Len(d) = n - 1},
                             m \in S} 

NoRepeat(c) == \A i, j \in 1..Len(c) : i # j => c[i].id # c[j].id

\* the corpora prepare_data is called with
Corpora == {c \in SeqsUpTo(Pool, MaxCorpus) : NoRepeat(c)}

\* the n_recommendations the callers pass
Ns == (0 - MaxNeg)..MaxN

(* -------------------------- Feature Composer -------------------------- *)

\* str * 3
Times3(s) == s \o s \o s

\* The values of the optional fields genres, keywords, credits, cast and
\* director, tagged with their Python type.  A dict is a record of its keys; a
\* list is the sequence of its elements.  title and overview are plain texts.
StrCell(text) == <<"str", text>>
ListCell(elements) == <<"list", elements>>
DictCell(items) == <<"dict", items>>

\* pd.DataFrame(movies): every row gets every key some movie has; a key the
\* row's movie does not have is NaN, written Absent
Columns(movies) == UNION {DOMAIN movies[k] : k \in 1..Len(movies)}
Frame(movies) ==
    [k \in 1..Len(movies) |->
        [c \in Columns(movies) |->
            IF c \in DOMAIN movies[k] THEN movies[k][c] ELSE Absent]]

\* bool(cell): NaN is a non-zero float, so it is true
Truthy(cell) ==
    IF cell = Absent THEN TRUE
    ELSE IF cell[1] = "dict" THEN DOMAIN cell[2] # {}
    ELSE cell[2] # <<>>

IsList(cell) == cell # Absent /\ cell[1] = "list"
IsDict(cell) == cell # Absent /\ cell[1] = "dict"

\* s[:5]
FirstFive(s) == IF Len(s) <= 5 THEN s ELSE SubSeq(s, 1, 5)

\* str(cell) of a string or of NaN
StrOf(cell) == IF cell = Absent THEN <<"n", "a", "n">> ELSE cell[2]

\* 'field' in row and row['field']
Has(row, field) == field \in DOMAIN row /\ Truthy(row[field])

\* [d['name'] for d in dicts]; a dict without 'name' is a KeyError, see
\* CombineRaises
Names(dicts) ==
    SubSeq([k \in 1..Len(dicts) |->
               IF "name" \in DOMAIN dicts[k] THEN dicts[k].name ELSE <<>>],
           1, Len(dicts))
LacksName(dicts) == \E k \in 1..Len(dicts) : "name" \notin DOMAIN dicts[k]

\* _combine_features, lines 72-81: the genres
GenreFeatures(row) ==
    IF ~Has(row, "genres") THEN <<>>
    ELSE IF IsList(row.genres)
    THEN LET genres == row.genres[2]
         IN  SubSeq([k \in 1..Len(genres) |->
                        IF genres[k][1] = "dict"
                        THEN (IF "name" \in DOMAIN genres[k][2]
                              THEN genres[k][2].name ELSE <<>>)
                        ELSE genres[k][2]],
                    1, Len(genres))
    ELSE <<StrOf(row.genres)>>

\* lines 87-90: the keywords
KeywordFeatures(row) ==
    IF Has(row, "keywords") /\ IsDict(row.keywords)
       /\ "keywords" \in DOMAIN row.keywords[2]
    THEN Names(row.keywords[2].keywords)
    ELSE <<>>

\* lines 92-102: the first 5 actors, of credits or else of a flat cast list
CastFeatures(row) ==
    IF Has(row, "credits")
    THEN IF IsDict(row.credits) /\ "cast" \in DOMAIN row.credits[2]
         THEN Names(FirstFive(row.credits[2].cast))
         ELSE <<>>
    ELSE IF Has(row, "cast") /\ IsList(row.cast)
    THEN LET cast == FirstFive(row.cast[2])
         IN  SubSeq([k \in 1..Len(cast) |->
                        IF cast[k][1] = "dict"
                        THEN (IF "name" \in DOMAIN cast[k][2]
                              THEN cast[k][2].name ELSE <<>>)
                        ELSE cast[k][2]],
                    1, Len(cast))
    ELSE <<>>

\* lines 104-112: the first director of credits' crew, or else the director
\* field
DirectorFeatures(row) ==
    IF Has(row, "credits")
    THEN IF IsDict(row.credits) /\ "crew" \in DOMAIN row.credits[2]
         THEN LET crew == row.credits[2].crew
                  directors == SelectSeq(crew, LAMBDA person :
                                   "job" \in DOMAIN person /\ person.job = "Director")
              IN  IF directors = <<>> THEN <<>> ELSE Names(<<directors[1]>>)
         ELSE <<>>
    ELSE IF Has(row, "director") THEN <<StrOf(row.director)>>
    ELSE <<>>

\* whether _combine_features raises KeyError on the row: g['name'],
\* k['name'], actor['name'] or person['name'] of a dict without that key
CombineRaises(row) ==
    \/ /\ Has(row, "genres") /\ IsList(row.genres)
       /\ \E k \in 1..Len(row.genres[2]) :
              row.genres[2][k][1] = "dict" /\ "name" \notin DOMAIN row.genres[2][k][2]
    \/ /\ Has(row, "keywords") /\ IsDict(row.keywords)
       /\ "keywords" \in DOMAIN row.keywords[2]
       /\ LacksName(row.keywords[2].keywords)
    \/ /\ Has(row, "credits") /\ IsDict(row.credits)
       /\ \/ /\ "cast" \in DOMAIN row.credits[2]
             /\ LacksName(FirstFive(row.credits[2].cast))
          \/ /\ "crew" \in DOMAIN row.credits[2]
             /\ LET directors == SelectSeq(row.credits[2].crew, LAMBDA person :
                                     "job" \in DOMAIN person /\ person.job = "Director")
                IN  directors # <<>> /\ "name" \notin DOMAIN directors[1]

\* RecommendationEngine._combine_features on a row that does not make it
\* raise: the title three times, the genres, the overview, the keywords, the
\* cast and the director, joined by blanks, lower-cased
CombineFeatures(row) ==
    LET features ==
            (IF "title" \in DOMAIN row /\ row.title # Absent
             THEN <<Times3(row.title)>> ELSE <<>>)
            \o GenreFeatures(row)
            \o (IF "overview" \in DOMAIN row /\ row.overview # Absent
                THEN <<row.overview>> ELSE <<>>)
            \o KeywordFeatures(row)
            \o CastFeatures(row)
            \o DirectorFeatures(row)
    IN  LowerStr(Join(features))

\* the combined_features column of rows: rows.apply(_combine_features, axis=1)
RECURSIVE CombinedRows(_)
CombinedRows(rows) ==
    IF rows = <<>> THEN <<>>
    ELSE <<CombineFeatures(Head(rows))>> \o CombinedRows(Tail(rows))

\* prepare_data, lines 46-52: the combined_features column of the table made
\* of movies
CombinedFeatures(movies) == CombinedRows(Frame(movies))

(* ------------------------------ Text Index ---------------------------- *)

\* TfidfVectorizer(max_features=5000)
max_features == 5000

\* the words of sklearn's ENGLISH_STOP_WORDS that the model's alphabet can spell
StopWords == {<<"b", "e">>, <<"d", "e">>}

\* the token pattern (?u)\b\w\w+\b: the maximal runs of \w characters
RECURSIVE WordRuns(_, _)
WordRuns(s, cur) ==
    IF s = <<>> THEN (IF cur = <<>> THEN <<>> ELSE <<cur>>)
    ELSE IF Head(s) \in WordChars
         THEN WordRuns(Tail(s), Append(cur, Head(s)))
         ELSE (IF cur = <<>> THEN <<>> ELSE <<cur>>) \o WordRuns(Tail(s), <<>>)

\* ... of two characters or more, stop words removed (stop_words='english')
Tokens(doc) ==
    SelectSeq(WordRuns(doc, <<>>), LAMBDA w : Len(w) >= 2 /\ w \notin StopWords)

\* the neighbouring pairs of a token list
RECURSIVE Bigrams(_)
Bigrams(t) ==
    IF Len(t) < 2 THEN <<>> ELSE <<<<t[1], t[2]>>>> \o Bigrams(Tail(t))

RECURSIVE Unigrams(_)
Unigrams(t) == IF t = <<>> THEN <<>> ELSE <<<<Head(t)>>>> \o Unigrams(Tail(t))

\* ngram_range=(1, 2): every token and every pair of neighbouring tokens
NGrams(doc) == LET t == Tokens(doc) IN Unigrams(t) \o Bigrams(t)

\* the analysed documents, one list of terms each
RECURSIVE Analyze(_)
Analyze(docs) ==
    IF docs = <<>> THEN <<>> ELSE <<NGrams(Head(docs))>> \o Analyze(Tail(docs))

\* the number of times term occurs in a document's terms
Count(term, grams) == Cardinality({i \in 1..Len(grams) : grams[i] = term})

\* the fitted vocabulary: every term of every document, cut to the
\* max_features terms of greatest total count when there are more
Vocabulary(analyzed) ==
    LET all == UNION {{analyzed[i][k] : k \in 1..Len(analyzed[i])}
                      : i \in 1..Len(analyzed)}
        total(t) == LET RECURSIVE Sum(_)
                        Sum(i) == IF i = 0 THEN 0
                                  ELSE Count(t, analyzed[i]) + Sum(i - 1)
                    IN  Sum(Len(analyzed))
    IN  IF Cardinality(all) <= max_features THEN all
        ELSE CHOOSE S \in SUBSET all :
                 /\ Cardinality(S) = max_features
                 /\ \A s \in S, t \in all \ S : total(s) >= total(t)

\* 1000 * ln(k), k = 1 .. 8
Ln1000 == <<0, 693, 1099, 1386, 1609, 1792, 1946, 2079>>

\* the smoothed inverse document frequency ln((1 + n) / (1 + df)) + 1, in tenths
Idf(n, df) == (1000 + Ln1000[1 + n] - Ln1000[1 + df] + 50) \div 100

\* the rows of the matrix for the documents from the first of rest on: term ->
\* count * idf
RECURSIVE Rows(_, _, _)
Rows(rest, analyzed, vocab) ==
    IF rest = <<>> THEN <<>>
    ELSE LET n == Len(analyzed)
             df(t) == Cardinality({i \in 1..n : Count(t, analyzed[i]) > 0})
         IN  <<[t \in vocab |-> Count(t, Head(rest)) * Idf(n, df(t))]>>
             \o Rows(Tail(rest), analyzed, vocab)

\* TfidfVectorizer.fit_transform on the analysed documents: one row per
\* document.  The rows are kept unnormalised; the L2 norm is divided out in
\* CosineSimilarity.
FitTransform(analyzed) == Rows(analyzed, analyzed, Vocabulary(analyzed))

\* fit_transform raises ValueError("empty vocabulary") when no document
\* yields a term
EmptyVocabulary(analyzed) == Vocabulary(analyzed) = {}

(* --------------------------- cosine similarity ------------------------ *)

RECURSIVE SumOver(_, _)
SumOver(f, S) ==
    IF S = {} THEN 0
    ELSE LET x == CHOOSE y \in S : TRUE IN f[x] + SumOver(f, S \ {x})

Dot(u, v) == SumOver([t \in DOMAIN u |-> u[t] * v[t]], DOMAIN u)

\* the integer square root, by bisection
RECURSIVE IsqrtIn(_, _, _)
IsqrtIn(x, lo, hi) ==
    IF lo = hi THEN lo
    ELSE LET mid == (lo + hi + 1) \div 2
         IN  IF mid * mid <= x THEN IsqrtIn(x, mid, hi) ELSE IsqrtIn(x, lo, mid - 1)

Isqrt(x) == IsqrtIn(x, 0, 46340)

\* sklearn cosine_similarity of two rows, in thousandths; a zero row has
\* similarity 0 with every row
CosineSimilarity(u, v) ==
    LET d == Dot(u, v)
        s == Isqrt(Dot(u, u) * Dot(v, v))
    IN  IF s = 0 THEN 0 ELSE (d * 1000) \div s


(* --------------------------- Python helpers --------------------------- *)

\* a field that is None, and a field that holds v
NoneV == [some |-> FALSE, val |-> <<>>]
Some(v) == [some |-> TRUE, val |-> v]

\* F(v) with v evaluated once: TLC passes an operator's arguments unevaluated
\* and evaluates them at each use
With(v, F(_)) == CHOOSE r \in {F(x) : x \in {v}} : TRUE

Min(a, b) == IF a < b THEN a ELSE b
Max(a, b) == IF a > b THEN a ELSE b

\* a slice bound brought into 0 .. len, as Python does
SliceBound(x, len) == IF x < 0 THEN Max(x + len, 0) ELSE Min(x, len)

\* s[start:stop] with Python's rules for negative and out-of-range bounds
PySlice(s, start, stop) ==
    With(s, LAMBDA t : SubSeq(t, SliceBound(start, Len(t)) + 1,
                              SliceBound(stop, Len(t))))

\* s[::-1]
Reverse(s) ==
    With(s, LAMBDA t : SubSeq([i \in 1..Len(t) |-> t[Len(t) + 1 - i]], 1, Len(t)))

\* numpy.argsort: the positions of a in ascending order of value.  The default
\* kind is not stable: equal values come in ascending position where numpy
\* sorts by insertion ("stable"), and their order is the build's choice where it
\* dispatches to a vectorised sort ("reversed" stands for such a build).
Argsort(s, ties) ==
    With(s, LAMBDA a :
        LET before(i, j) == \/ a[i] < a[j]
                            \/ /\ a[i] = a[j]
                               /\ IF ties = "stable" THEN i < j ELSE i > j
            rank(i) == 1 + Cardinality({j \in 1..Len(a) : before(j, i)})
        IN  SubSeq([p \in 1..Len(a) |-> CHOOSE i \in 1..Len(a) : rank(i) = p],
                   1, Len(a)))

\* list.sort(key=..., reverse=True) and sorted(..., reverse=True): descending
\* by key, equal keys in their original order; greater(x, y) is key(x) > key(y)
SortDesc(s, greater(_, _)) ==
    With(s, LAMBDA t :
        LET before(i, j) == \/ greater(t[i], t[j])
                            \/ (~greater(t[j], t[i]) /\ i < j)
            rank(i) == 1 + Cardinality({j \in 1..Len(t) : before(j, i)})
        IN  SubSeq([p \in 1..Len(t) |-> t[CHOOSE i \in 1..Len(t) : rank(i) = p]],
                   1, Len(t)))

(* ---------------------------- Title Resolver -------------------------- *)

\* the loop of _find_best_match from row i on; best is <<best_idx, best_score>>
RECURSIVE FindBestMatchFrom(_, _, _, _)
FindBestMatchFrom(df, normalized_input, i, best) ==
    IF i > Len(df) THEN best
    ELSE LET movie_title == df[i].title
             normalized_movie == NormalizeTitle(movie_title)
             score == IF \/ Contains(normalized_input, normalized_movie)
                         \/ Contains(normalized_movie, normalized_input)
                      THEN <<9, 10>>
                      ELSE Ratio(normalized_input, normalized_movie)
         IN  IF movie_title = Absent \/ movie_title = <<>>
             THEN FindBestMatchFrom(df, normalized_input, i + 1, best)
             ELSE IF normalized_input = normalized_movie
             THEN <<i, <<1, 1>>>>
             ELSE With(score, LAMBDA sc :
                       FindBestMatchFrom(df, normalized_input, i + 1,
                                         IF FracGt(sc, best[2]) THEN <<i, sc>> ELSE best))

\* RecommendationEngine._find_best_match: <<index, score>>
FindBestMatch(self, title) ==
    IF ~self.movies_df.some THEN <<-1, <<0, 1>>>>
    ELSE With(NormalizeTitle(title), LAMBDA normalized_input :
              FindBestMatchFrom(self.movies_df.val, normalized_input, 1,
                                <<-1, <<0, 1>>>>))

\* the rows whose title equals the query case-insensitively
\* (movies_df['title'].str.lower() == movie_title.lower())
ExactMatch(df, movie_title) ==
    {i \in 1..Len(df) :
        df[i].title # Absent /\ LowerStr(df[i].title) = LowerStr(movie_title)}

\* the score below which content_based_recommendations gives up, 0.5
MinMatchScore == <<1, 2>>

\* ResolveSeed without the exact-match step before the fuzzy search
ResolveSeed_FuzzyOnly(self, movie_title) ==
    With(FindBestMatch(self, movie_title), LAMBDA found :
         [idx |-> found[1], score |-> found[2],
          usable |-> ~(found[1] = -1 \/ FracLt(found[2], MinMatchScore))])

\* ResolveSeed giving up at a score of 0.5 too (<= for <)
ResolveSeed_StrictThreshold(self, movie_title) ==
    LET exact_match == ExactMatch(self.movies_df.val, movie_title)
    IN  IF exact_match # {}
        THEN [idx |-> CHOOSE i \in exact_match : \A j \in exact_match : i <= j,
              score |-> <<1, 1>>, usable |-> TRUE]
        ELSE With(FindBestMatch(self, movie_title), LAMBDA found :
                  [idx |-> found[1], score |-> found[2],
                   usable |-> ~(found[1] = -1 \/ ~FracGt(found[2], MinMatchScore))])

\* content_based_recommendations, lines 171-182: the seed's row and the score
\* it was found with (the first exact match counts as 1.0); usable tells
\* whether the function goes on to rank
ResolveSeed(self, movie_title) ==
    LET exact_match == ExactMatch(self.movies_df.val, movie_title)
    IN  IF exact_match # {}
        THEN [idx |-> CHOOSE i \in exact_match : \A j \in exact_match : i <= j,
              score |-> <<1, 1>>, usable |-> TRUE]
        ELSE With(FindBestMatch(self, movie_title), LAMBDA found :
                  [idx |-> found[1], score |-> found[2],
                   usable |-> ~(found[1] = -1 \/ FracLt(found[2], MinMatchScore))])

(* ------------------------------ the engine ---------------------------- *)

VARIABLES
    movies_df,          \* self.movies_df: None or the table's rows
    tfidf_vectorizer,   \* self.tfidf_vectorizer: None or the vectorizer
    tfidf_matrix,       \* self.tfidf_matrix: None or the matrix's rows
    argsort_ties,       \* how this build's argsort orders equal values
    last_prepare,       \* the corpus of the latest prepare_data call was:
                        \* "none" (no call yet), "empty" or "nonempty"
    last,               \* the call that has just returned, or Idle
    watchlist,          \* WatchlistManager.watchlist: the list of movies
    watched,            \* WatchlistManager.watched: the list of movies
    ratings,            \* WatchlistManager.ratings: the dict's items, in
                        \* insertion order
    session             \* st.session_state: the result list of each of the
                        \* four recommendation tabs

\* the WatchlistManager's fields
manager == <<watchlist, watched, ratings>>

vars == <<movies_df, tfidf_vectorizer, tfidf_matrix, argsort_ties, last_prepare, last,
          manager, session>>

Self == [movies_df |-> movies_df, tfidf_vectorizer |-> tfidf_vectorizer,
         tfidf_matrix |-> tfidf_matrix]

\* what a call leaves behind: whether it raised, and the list it returned
Returned(result) == [raised |-> FALSE, result |-> result]
Raised == [raised |-> TRUE, result |-> <<>>]

\* lines 46-52 as a call of their own: the column, or the KeyError
ComposeAll(movies) ==
    IF \E k \in 1..Len(movies) : CombineRaises(Frame(movies)[k]) THEN Raised
    ELSE Returned(CombinedFeatures(movies))

\* prepare_data, lines 49-62, for one corpus: whether fit_transform succeeds,
\* and then the vocabulary it fits and the matrix it returns
BuildIndex(movies) ==
    LET docs == Analyze(CombinedFeatures(movies))
    IN  IF EmptyVocabulary(docs)
        THEN [raised |-> TRUE, vocabulary |-> {}, matrix |-> <<>>]
        ELSE [raised |-> FALSE, vocabulary |-> Vocabulary(docs),
              matrix |-> FitTransform(docs)]

\* BuildIndex tabulated: the index is a function of the corpus alone, so each
\* corpus is vectorised once
TextIndex == [movies \in Corpora |-> BuildIndex(movies)]

\* PrepareData adding the new rows to the table it already has
\* (pd.concat([self.movies_df, pd.DataFrame(movies)]))
PrepareData_Appending(self, movies) ==
    IF movies = <<>> THEN [self |-> self, raised |-> FALSE]
    ELSE LET all_rows == IF self.movies_df.some
                         THEN self.movies_df.val \o movies ELSE movies
             built == BuildIndex(all_rows)
         IN  IF built.raised
             THEN [self |-> [movies_df |-> Some(all_rows),
                             tfidf_vectorizer |-> Some([fitted |-> FALSE,
                                                        vocabulary |-> {}]),
                             tfidf_matrix |-> self.tfidf_matrix],
                   raised |-> TRUE]
             ELSE [self |-> [movies_df |-> Some(all_rows),
                             tfidf_vectorizer |-> Some([fitted |-> TRUE,
                                                        vocabulary |-> built.vocabulary]),
                             tfidf_matrix |-> Some(built.matrix)],
                   raised |-> FALSE]

\* RecommendationEngine.prepare_data: the engine afterwards, and whether the
\* call raised (fit_transform does on an empty vocabulary, after movies_df and
\* tfidf_vectorizer were assigned)
PrepareData(self, movies) ==
    IF movies = <<>> THEN [self |-> self, raised |-> FALSE]
    ELSE LET built == TextIndex[movies]
         IN  IF built.raised
             THEN [self |-> [movies_df |-> Some(movies),
                             tfidf_vectorizer |-> Some([fitted |-> FALSE,
                                                        vocabulary |-> {}]),
                             tfidf_matrix |-> self.tfidf_matrix],
                   raised |-> TRUE]
             ELSE [self |-> [movies_df |-> Some(movies),
                             tfidf_vectorizer |-> Some([fitted |-> TRUE,
                                                        vocabulary |-> built.vocabulary]),
                             tfidf_matrix |-> Some(built.matrix)],
                   raised |-> FALSE]

\* cosine_similarity(row, matrix).flatten()
RECURSIVE CosineSimilarities(_, _)
CosineSimilarities(row, matrix) ==
    IF matrix = <<>> THEN <<>>
    ELSE <<CosineSimilarity(row, Head(matrix))>> \o CosineSimilarities(row, Tail(matrix))

\* content_based_recommendations, lines 184-199: the rows most similar to row
\* idx.  Slicing the matrix past its end gives no row, which cosine_similarity
\* rejects; a position past the table's end makes iloc raise.
SimilarTo(df, matrix, ties, idx, n_recommendations) ==
    IF idx > Len(matrix) THEN Raised
    ELSE With(CosineSimilarities(matrix[idx], matrix), LAMBDA cosine_similarities :
         With(PySlice(Reverse(Argsort(cosine_similarities, ties)),
                      1, n_recommendations + 1), LAMBDA similar_indices :
              IF \E k \in 1..Len(similar_indices) : similar_indices[k] > Len(df)
              THEN Raised
              ELSE Returned(SubSeq([k \in 1..Len(similar_indices) |->
                                       <<df[similar_indices[k]].id,
                                         cosine_similarities[similar_indices[k]]>>],
                                   1, Len(similar_indices)))))

\* the row content_based_recommendations ranks from, -1 when it returns early
SeedIndex(self, movie_title) ==
    IF ~self.movies_df.some \/ ~self.tfidf_matrix.some THEN -1
    ELSE With(ResolveSeed(self, movie_title), LAMBDA seed :
              IF seed.usable THEN seed.idx ELSE -1)

\* RecommendationEngine.content_based_recommendations
ContentBasedRecommendations(self, ties, movie_title, n_recommendations) ==
    With(SeedIndex(self, movie_title), LAMBDA idx :
         IF idx = -1 THEN Returned(<<>>)
         ELSE SimilarTo(self.movies_df.val, self.tfidf_matrix.val, ties, idx,
                        n_recommendations))

(* --------------------------- keyword fallback ------------------------- *)

\* set(s.split())
WordSet(s) == {Split(s)[k] : k \in 1..Len(Split(s))}

\* movie.get(field, '') for a text field
GetText(t) == IF t = Absent THEN <<>> ELSE t

\* the score of one movie in fuzzy_content_recommendations, in tenths: 0.3 for
\* each title word shared, 0.1 for each query word longer than 3 found in the
\* overview
FuzzyScore(movie_title, movie) ==
    LET title_words == WordSet(NormalizeTitle(movie_title))
        movie_words == WordSet(NormalizeTitle(GetText(movie.title)))
        overview == LowerStr(GetText(movie.overview))
    IN  3 * Cardinality(title_words \cap movie_words)
        + Cardinality({w \in title_words : Len(w) > 3 /\ Contains(w, overview)})

\* whether fuzzy_content_recommendations skips the movie as "the same movie"
SameMovie(movie_title, movie) ==
    FracGt(Ratio(NormalizeTitle(movie_title), NormalizeTitle(GetText(movie.title))),
           <<9, 10>>)

\* RecommendationEngine.fuzzy_content_recommendations
FuzzyContentRecommendations(movie_title, movies, n_recommendations) ==
    LET kept == SelectSeq(movies, LAMBDA m : /\ ~SameMovie(movie_title, m)
                                            /\ FuzzyScore(movie_title, m) > 0)
        scored_movies == [k \in 1..Len(kept) |->
                             <<kept[k].id, FuzzyScore(movie_title, kept[k])>>]
    IN  IF movies = <<>> THEN Returned(<<>>)
        ELSE Returned(PySlice(SortDesc(scored_movies, LAMBDA x, y : x[2] > y[2]),
                              0, n_recommendations))

(* ------------------------------ sentiment ----------------------------- *)

RECURSIVE SeqSum(_)
SeqSum(s) == IF s = <<>> THEN 0 ELSE Head(s) + SeqSum(Tail(s))

\* the polarities of the reviews with content among the first 5 reviews
ReviewSentiments(movie) ==
    LET with_content == SelectSeq(PySlice(movie.review_polarities, 0, 5),
                                  LAMBDA review : review # <<>>)
    IN  SubSeq([k \in 1..Len(with_content) |-> with_content[k][1]],
               1, Len(with_content))

\* the sentiment sentiment_based_recommendations gives one movie, in
\* thousandths: the overview's polarity, averaged with the mean polarity of the
\* first 5 reviews when there are any
MovieSentiment(movie) ==
    LET overview == GetText(movie.overview)
        sentiment == IF overview # <<>> THEN movie.polarity ELSE 0
        review_sentiments == ReviewSentiments(movie)
    IN  IF review_sentiments # <<>>
        THEN (sentiment + SeqSum(review_sentiments) \div Len(review_sentiments)) \div 2
        ELSE sentiment

\* RecommendationEngine.sentiment_based_recommendations
SentimentBasedRecommendations(movies, min_sentiment, n_recommendations) ==
    LET kept == SelectSeq(movies, LAMBDA m : MovieSentiment(m) >= min_sentiment)
        movie_sentiments == [k \in 1..Len(kept) |->
                                <<kept[k].title, MovieSentiment(kept[k]),
                                  kept[k].vote_average>>]
    IN  Returned(PySlice(SortDesc(movie_sentiments,
                                  LAMBDA x, y : \/ x[2] > y[2]
                                                \/ (x[2] = y[2] /\ x[3] > y[3])),
                         0, n_recommendations))

(* -------------------------- Sentiment Scorer -------------------------- *)

\* SentimentLabel with >= for > at each threshold
SentimentLabel_Inclusive(overall_sentiment) ==
    IF overall_sentiment >= 300 THEN "Very Positive"
    ELSE IF overall_sentiment >= 100 THEN "Positive"
    ELSE IF overall_sentiment >= -100 THEN "Neutral"
    ELSE IF overall_sentiment >= -300 THEN "Negative"
    ELSE "Very Negative"

\* analyze_movie_sentiment, lines 401-411 of app.py: the label of an overall
\* sentiment given in thousandths (the emoji that ends each label is left out)
SentimentLabel(overall_sentiment) ==
    IF overall_sentiment > 300 THEN "Very Positive"
    ELSE IF overall_sentiment > 100 THEN "Positive"
    ELSE IF overall_sentiment > -100 THEN "Neutral"
    ELSE IF overall_sentiment > -300 THEN "Negative"
    ELSE "Very Negative"

\* AnalyzeMovieSentiment blending overview and reviews half and half
AnalyzeMovieSentiment_EvenBlend(movie) ==
    LET overview == GetText(movie.overview)
        overview_sentiment == IF overview # <<>> THEN movie.polarity ELSE 0
        review_sentiments == ReviewSentiments(movie)
        avg_review_sentiment ==
            IF review_sentiments # <<>>
            THEN SeqSum(review_sentiments) \div Len(review_sentiments) ELSE 0
        overall_sentiment ==
            IF review_sentiments # <<>>
            THEN (overview_sentiment + avg_review_sentiment) \div 2
            ELSE overview_sentiment
    IN  [overview_sentiment |-> overview_sentiment,
         review_sentiments |-> review_sentiments,
         avg_review_sentiment |-> avg_review_sentiment,
         overall_sentiment |-> overall_sentiment,
         sentiment_label |-> SentimentLabel(overall_sentiment)]

\* analyze_movie_sentiment of app.py, in thousandths
AnalyzeMovieSentiment(movie) ==
    LET overview == GetText(movie.overview)
        overview_sentiment == IF overview # <<>> THEN movie.polarity ELSE 0
        review_sentiments == ReviewSentiments(movie)
        avg_review_sentiment ==
            IF review_sentiments # <<>>
            THEN SeqSum(review_sentiments) \div Len(review_sentiments) ELSE 0
        overall_sentiment ==
            IF review_sentiments # <<>>
            THEN (overview_sentiment * 3 + avg_review_sentiment * 7) \div 10
            ELSE overview_sentiment
    IN  [overview_sentiment |-> overview_sentiment,
         review_sentiments |-> review_sentiments,
         avg_review_sentiment |-> avg_review_sentiment,
         overall_sentiment |-> overall_sentiment,
         sentiment_label |-> SentimentLabel(overall_sentiment)]

(* ---------------------------- collaborative --------------------------- *)

\* Rated looking at the liked titles only
Rated_LikedOnly(user_ratings, title) ==
    \E k \in 1..Len(user_ratings) :
        user_ratings[k][1] = title /\ user_ratings[k][2] >= 4

\* title in user_ratings; user_ratings is the dict's items in insertion order
Rated(user_ratings, title) ==
    \E k \in 1..Len(user_ratings) : user_ratings[k][1] = title

\* next((m for m in all_movies if m.get('id') == movie_id), None), as the
\* sequence of at most one movie
MovieById(all_movies, movie_id) ==
    LET found == SelectSeq(all_movies, LAMBDA m : m.id = movie_id)
    IN  IF found = <<>> THEN <<>> ELSE <<found[1]>>

\* recommendations[title] = max(recommendations[title], score), or a new key;
\* recommendations is the dict's items in insertion order
Accumulate(recommendations, title, score) ==
    IF \E k \in 1..Len(recommendations) : recommendations[k][1] = title
    THEN SubSeq([k \in 1..Len(recommendations) |->
                    IF recommendations[k][1] = title
                    THEN <<title, Max(recommendations[k][2], score)>>
                    ELSE recommendations[k]], 1, Len(recommendations))
    ELSE Append(recommendations, <<title, score>>)

\* the body of the inner loop of collaborative_filtering_simple for one
\* (movie_id, score) of a liked movie's similar movies
AddSimilar(recommendations, user_ratings, all_movies, movie_id, score) ==
    With(MovieById(all_movies, movie_id), LAMBDA movie_data :
         IF movie_data = <<>> THEN recommendations
         ELSE With(GetText(movie_data[1].title), LAMBDA title :
                   IF title # <<>> /\ ~Rated(user_ratings, title)
                   THEN Accumulate(recommendations, title, score)
                   ELSE recommendations))

\* the inner loop, over the similar movies from the k-th on
RECURSIVE AddAllSimilar(_, _, _, _, _)
AddAllSimilar(recommendations, similar, k, user_ratings, all_movies) ==
    IF k > Len(similar) THEN recommendations
    ELSE With(AddSimilar(recommendations, user_ratings, all_movies,
                         similar[k][1], similar[k][2]),
              LAMBDA next : AddAllSimilar(next, similar, k + 1, user_ratings, all_movies))

\* the outer loop over liked_movies from the k-th on; a raising
\* content_based_recommendations ends the call
RECURSIVE CollectLiked(_, _, _, _, _, _, _, _)
CollectLiked(self, ties, liked_movies, k, recommendations, user_ratings, all_movies, n) ==
    IF k > Len(liked_movies) THEN Returned(recommendations)
    ELSE With(ContentBasedRecommendations(self, ties, liked_movies[k], n),
              LAMBDA similar :
                  IF similar.raised THEN Raised
                  ELSE With(AddAllSimilar(recommendations, similar.result, 1,
                                          user_ratings, all_movies),
                            LAMBDA next :
                                CollectLiked(self, ties, liked_movies, k + 1, next,
                                             user_ratings, all_movies, n)))

\* LikedMovies with rating > 4 for rating >= 4
LikedMovies_Above4(user_ratings) ==
    LET liked == SelectSeq(user_ratings, LAMBDA r : r[2] > 4)
    IN  SubSeq([k \in 1..Len(liked) |-> liked[k][1]], 1, Len(liked))

\* the titles rated 4 or more, in the dict's order
LikedMovies(user_ratings) ==
    LET liked == SelectSeq(user_ratings, LAMBDA r : r[2] >= 4)
    IN  SubSeq([k \in 1..Len(liked) |-> liked[k][1]], 1, Len(liked))

\* CollaborativeFilteringSimple answering an empty user_ratings with the best
\* voted movies
CollaborativeFilteringSimple_PopularDefault(self, ties, user_ratings, all_movies, n_recommendations) ==
    IF user_ratings = <<>>
    THEN Returned(PySlice(SortDesc([k \in 1..Len(all_movies) |->
                                       <<all_movies[k].title, all_movies[k].vote_average>>],
                                   LAMBDA x, y : x[2] > y[2]),
                          0, n_recommendations))
    ELSE With(LikedMovies(user_ratings), LAMBDA liked_movies :
         IF liked_movies = <<>> THEN Returned(<<>>)
         ELSE With(CollectLiked(self, ties, liked_movies, 1, <<>>, user_ratings,
                                all_movies, n_recommendations),
                   LAMBDA collected :
                       IF collected.raised THEN Raised
                       ELSE Returned(PySlice(SortDesc(collected.result,
                                                      LAMBDA x, y : x[2] > y[2]),
                                             0, n_recommendations))))

\* RecommendationEngine.collaborative_filtering_simple
CollaborativeFilteringSimple(self, ties, user_ratings, all_movies, n_recommendations) ==
    With(LikedMovies(user_ratings), LAMBDA liked_movies :
         IF user_ratings = <<>> \/ liked_movies = <<>> THEN Returned(<<>>)
         ELSE With(CollectLiked(self, ties, liked_movies, 1, <<>>, user_ratings,
                                all_movies, n_recommendations),
                   LAMBDA collected :
                       IF collected.raised THEN Raised
                       ELSE Returned(PySlice(SortDesc(collected.result,
                                                      LAMBDA x, y : x[2] > y[2]),
                                             0, n_recommendations))))

(* --------------------------- Hybrid Combiner -------------------------- *)

\* The body of hybrid_recommendations is not among the source files; what
\* follows is spec.md, section 4.7.  Scores are in ten-thousandths: a
\* similarity or a sentiment in thousandths times its weight in tenths.
Weights == [content |-> 4, collaborative |-> 3, sentiment |-> 3]

\* the hybrid call's sentiment ranking: min_sentiment = 0.2
HybridMinSentiment == 200

\* whether the accumulator has the title; the accumulator is a dict's items
\* in insertion order
Accumulated(recommendations, title) ==
    \E k \in 1..Len(recommendations) : recommendations[k][1] = title

\* recommendations[title] += amount, a new title starting from 0
AddScore(recommendations, title, amount) ==
    IF Accumulated(recommendations, title)
    THEN SubSeq([k \in 1..Len(recommendations) |->
                    IF recommendations[k][1] = title
                    THEN <<title, recommendations[k][2] + amount>>
                    ELSE recommendations[k]], 1, Len(recommendations))
    ELSE Append(recommendations, <<title, amount>>)

\* one contribution: weight * score for each (title, score) of scored from the
\* k-th on; a contribution that only reinforces skips the titles the
\* accumulator does not have
RECURSIVE Contribute(_, _, _, _, _)
Contribute(recommendations, scored, k, weight, reinforce_only) ==
    IF k > Len(scored) THEN recommendations
    ELSE With(IF reinforce_only /\ ~Accumulated(recommendations, scored[k][1])
              THEN recommendations
              ELSE AddScore(recommendations, scored[k][1], weight * scored[k][2]),
              LAMBDA next : Contribute(next, scored, k + 1, weight, reinforce_only))

\* the Similarity Engine's (item id, score) results under the titles the
\* corpus gives the ids
ByTitle(similar, all_movies) ==
    LET known == SelectSeq(similar, LAMBDA r :
                     /\ MovieById(all_movies, r[1]) # <<>>
                     /\ GetText(MovieById(all_movies, r[1])[1].title) # <<>>)
    IN  SubSeq([k \in 1..Len(known) |->
                   <<MovieById(all_movies, known[k][1])[1].title, known[k][2]>>],
               1, Len(known))

\* the three runs of one hybrid call, each for its top 2n; a run not asked
\* for returns nothing.  A movie_title not given is Absent; user_ratings not
\* given is <<>>, as is the empty dict, for which the Collaborative Estimator
\* returns nothing.
SimilarityRun(self, ties, movie_title, n_recommendations) ==
    IF movie_title # Absent
    THEN ContentBasedRecommendations(self, ties, movie_title, 2 * n_recommendations)
    ELSE Returned(<<>>)

\* CollaborativeRun asking for the top n
CollaborativeRun_TopN(self, ties, user_ratings, all_movies, n_recommendations) ==
    IF user_ratings # <<>>
    THEN CollaborativeFilteringSimple(self, ties, user_ratings, all_movies,
                                      n_recommendations)
    ELSE Returned(<<>>)

CollaborativeRun(self, ties, user_ratings, all_movies, n_recommendations) ==
    IF user_ratings # <<>>
    THEN CollaborativeFilteringSimple(self, ties, user_ratings, all_movies,
                                      2 * n_recommendations)
    ELSE Returned(<<>>)

SentimentRun(all_movies, n_recommendations) ==
    IF all_movies # <<>>
    THEN SentimentBasedRecommendations(all_movies, HybridMinSentiment,
                                       2 * n_recommendations)
    ELSE Returned(<<>>)

\* HybridRecommendations letting the sentiment ranking add titles of its own
HybridRecommendations_SentimentSeeds(self, ties, movie_title, user_ratings, all_movies, n_recommendations) ==
    With(SimilarityRun(self, ties, movie_title, n_recommendations), LAMBDA similar :
    With(CollaborativeRun(self, ties, user_ratings, all_movies, n_recommendations),
         LAMBDA collaborative :
    IF similar.raised \/ collaborative.raised THEN Raised
    ELSE With(Contribute(<<>>, ByTitle(similar.result, all_movies), 1,
                         Weights.content, FALSE), LAMBDA by_content :
         With(Contribute(by_content, collaborative.result, 1,
                         Weights.collaborative, FALSE), LAMBDA by_both :
         With(Contribute(by_both, SentimentRun(all_movies, n_recommendations).result,
                         1, Weights.sentiment, FALSE), LAMBDA recommendations :
              Returned(PySlice(SortDesc(recommendations, LAMBDA x, y : x[2] > y[2]),
                               0, n_recommendations)))))))

\* RecommendationEngine.hybrid_recommendations
HybridRecommendations(self, ties, movie_title, user_ratings, all_movies, n_recommendations) ==
    With(SimilarityRun(self, ties, movie_title, n_recommendations), LAMBDA similar :
    With(CollaborativeRun(self, ties, user_ratings, all_movies, n_recommendations),
         LAMBDA collaborative :
    IF similar.raised \/ collaborative.raised THEN Raised
    ELSE With(Contribute(<<>>, ByTitle(similar.result, all_movies), 1,
                         Weights.content, FALSE), LAMBDA by_content :
         With(Contribute(by_content, collaborative.result, 1,
                         Weights.collaborative, FALSE), LAMBDA by_both :
         With(Contribute(by_both, SentimentRun(all_movies, n_recommendations).result,
                         1, Weights.sentiment, TRUE), LAMBDA recommendations :
              Returned(PySlice(SortDesc(recommendations, LAMBDA x, y : x[2] > y[2]),
                               0, n_recommendations)))))))

(* -------------------------- WatchlistManager -------------------------- *)

\* the manager as a value
Manager == [watchlist |-> watchlist, watched |-> watched, ratings |-> ratings]

\* [m.get('id') for m in movies]
IdsOf(movies) == {movies[k].id : k \in 1..Len(movies)}

\* AddToWatchlist refusing only a movie equal in every field
AddToWatchlist_SameMovie(self, movie) ==
    IF \A k \in 1..Len(self.watchlist) : self.watchlist[k] # movie
    THEN [self |-> [self EXCEPT !.watchlist = Append(self.watchlist, movie)],
          result |-> TRUE]
    ELSE [self |-> self, result |-> FALSE]

\* WatchlistManager.add_to_watchlist: the manager afterwards and the value
\* returned
AddToWatchlist(self, movie) ==
    IF movie.id \notin IdsOf(self.watchlist)
    THEN [self |-> [self EXCEPT !.watchlist = Append(self.watchlist, movie)],
          result |-> TRUE]
    ELSE [self |-> self, result |-> FALSE]

\* WatchlistManager.remove_from_watchlist
RemoveFromWatchlist(self, movie_id) ==
    [self EXCEPT !.watchlist = SelectSeq(self.watchlist, LAMBDA m : m.id # movie_id)]

\* dict[key] = value on a dict's items: a key it has keeps its place
SetItem(items, key, value) ==
    IF \E k \in 1..Len(items) : items[k][1] = key
    THEN SubSeq([k \in 1..Len(items) |->
                    IF items[k][1] = key THEN <<key, value>> ELSE items[k]],
                1, Len(items))
    ELSE Append(items, <<key, value>>)

\* WatchlistManager.mark_as_watched; rating is NoneV when not given
MarkAsWatched(self, movie_id, rating) ==
    LET found == SelectSeq(self.watchlist, LAMBDA m : m.id = movie_id)
    IN  IF found = <<>> THEN self
        ELSE LET movie == found[1]
                 removed == RemoveFromWatchlist(
                                [self EXCEPT !.watched = Append(self.watched, movie)],
                                movie_id)
             IN  IF rating.some /\ rating.val # 0
                 THEN [removed EXCEPT !.ratings =
                                          SetItem(self.ratings, movie.title, rating.val)]
                 ELSE removed

(* ----------------------------- MovieFilters --------------------------- *)

\* A bound not given is NoneV.  `if bound and ...`: a bound is used when it is
\* given and not 0.
Used(bound) == bound.some /\ bound.val # 0

\* str.split('-')[0]
BeforeDash(s) ==
    IF \E i \in 1..Len(s) : s[i] = "-"
    THEN SubSeq(s, 1, (CHOOSE i \in 1..Len(s) :
                           s[i] = "-" /\ \A j \in 1..(i - 1) : s[j] # "-") - 1)
    ELSE s

Digits == [c \in {"0", "1", "2"} |-> IF c = "0" THEN 0 ELSE IF c = "1" THEN 1 ELSE 2]

\* int(s) of a text of digits; a text that is empty or has another character
\* is a ValueError, see HasYear
RECURSIVE ParseInt(_)
ParseInt(s) ==
    IF s = <<>> THEN 0 ELSE 10 * ParseInt(SubSeq(s, 1, Len(s) - 1)) + Digits[s[Len(s)]]

\* movie.get('release_date', ''); a release_date of None is '' to the test
\* `if release_date`
ReleaseDate(movie) ==
    IF "release_date" \in DOMAIN movie /\ movie.release_date # Absent
    THEN movie.release_date ELSE <<>>

\* the movie gets as far as the comparisons of filter_by_year: it has a
\* release date and int() takes its year
HasYear(movie) ==
    LET year == BeforeDash(ReleaseDate(movie))
    IN  year # <<>> /\ \A i \in 1..Len(year) : year[i] \in DOMAIN Digits

Year(movie) == ParseInt(BeforeDash(ReleaseDate(movie)))

\* MovieFilters.filter_by_year
FilterByYear(movies, min_year, max_year) ==
    Returned(SelectSeq(movies, LAMBDA movie :
        /\ HasYear(movie)
        /\ ~(Used(min_year) /\ Year(movie) < min_year.val)
        /\ ~(Used(max_year) /\ Year(movie) > max_year.val)))

\* movie.get('vote_average', 0)
VoteAverage(movie) == IF "vote_average" \in DOMAIN movie THEN movie.vote_average ELSE 0

\* MovieFilters.filter_by_rating
FilterByRating(movies, min_rating, max_rating) ==
    Returned(SelectSeq(movies, LAMBDA movie :
        /\ ~(Used(min_rating) /\ VoteAverage(movie) < min_rating.val)
        /\ ~(Used(max_rating) /\ VoteAverage(movie) > max_rating.val)))

\* movie.get('runtime', 0): <<r>> for the number r, <<>> for None, which the
\* data source gives a movie whose runtime it does not know
Runtime(movie) == IF "runtime" \in DOMAIN movie THEN movie.runtime ELSE <<0>>

\* MovieFilters.filter_by_runtime; None < bound and None > bound are a
\* TypeError
FilterByRuntime(movies, min_runtime, max_runtime) ==
    IF /\ Used(min_runtime) \/ Used(max_runtime)
       /\ \E k \in 1..Len(movies) : Runtime(movies[k]) = <<>>
    THEN Raised
    ELSE Returned(SelectSeq(movies, LAMBDA movie :
             /\ Runtime(movie) # <<0>>
             /\ ~(Used(min_runtime) /\ Runtime(movie)[1] < min_runtime.val)
             /\ ~(Used(max_runtime) /\ Runtime(movie)[1] > max_runtime.val)))

(* ----------------------- the recommendation tabs ---------------------- *)

\* the loops that fill a tab's result list (app.py, lines 828-831, 869-872,
\* 907-910, 959-962): each recommendation whose movie is among movies, with
\* the movie in place of its id
WithMovieById(recommendations, movies) ==
    LET known == SelectSeq(recommendations, LAMBDA r : MovieById(movies, r[1]) # <<>>)
    IN  SubSeq([k \in 1..Len(known) |->
                   <<MovieById(movies, known[k][1])[1]>> \o Tail(known[k])],
               1, Len(known))

\* the same with the movie in place of its title
WithMovieByTitle(recommendations, movies) ==
    LET titled(title) == SelectSeq(movies, LAMBDA m : m.title = title)
        known == SelectSeq(recommendations, LAMBDA r : titled(r[1]) # <<>>)
    IN  SubSeq([k \in 1..Len(known) |-> <<titled(known[k][1])[1]>> \o Tail(known[k])],
               1, Len(known))

\* the content tab after prepare_data (lines 820-843): the recommendations of
\* the last call made, and the tab's new result list
ContentTabOutcome(self, ties, movie_title, search_title, movies) ==
    With(ContentBasedRecommendations(self, ties, search_title, 10), LAMBDA similar :
         IF similar.raised THEN [raised |-> TRUE]
         ELSE IF similar.result # <<>>
         THEN [raised |-> FALSE, recommendations |-> similar.result,
               results |-> WithMovieById(similar.result, movies)]
         ELSE With(FuzzyContentRecommendations(movie_title, movies, 10).result,
                   LAMBDA fuzzy :
                       [raised |-> FALSE, recommendations |-> fuzzy,
                        results |-> WithMovieById(fuzzy, movies)]))

\* the other three tabs (lines 869-872, 906-910, 957-962): the result list is
\* replaced when the call returned recommendations
Replaced(results, recommendations, movies) ==
    IF recommendations # <<>> THEN WithMovieByTitle(recommendations, movies)
    ELSE results

(* ------------------------- the callers' inputs ------------------------ *)

\* the seed titles typed by the user
Queries ==
    { <<"A">>,                           \* a title, also in another case
      <<"a", "-">>,                      \* a punctuated title in another case
      <<"a", "b", "c", "d", "e">>,       \* contains a title, is close to another
      <<"b", "c">>,                      \* half of "bc" + "abxcde" matches
      <<"c", "b">>,                      \* a quarter of "cb" + "abxcde" matches
      <<"z", "z">> }                     \* matches no title

\* seed titles whose normalized form is empty: the empty string, a blank,
\* punctuation
BlankSeeds == {<<>>, <<" ">>, <<"-">>, <<"-", " ", "-">>}

\* the titles given to the keyword fallback: the second shares the word "a"
\* with three titles and the word "abcde" with one overview
KeywordQueries ==
    { <<"A">>,
      <<"a", " ", "a", "b", "c", "d", "e">>,
      Txt_xy_abcdea,
      <<"z", "z">> }

\* the movie lists handed to the calls that take one: the first movies of a
\* fetched catalogue
Catalogue == <<M1, M4, M3, M2>>
CallCorpora == {SubSeq(Catalogue, 1, k) : k \in 0..Min(MaxCorpus, Len(Catalogue))}

\* the movie lists handed to the keyword fallback
KeywordCorpora == CallCorpora \cup {<<M5>>, <<M1, M5>>}

\* the user_ratings dicts, as their items in insertion order
RatingSets ==
    { <<>>,
      <<<<Txt_A, 5>>>>,
      <<<<Txt_A, 4>>, <<Txt_abxcde, 5>>>>,
      <<<<Txt_A, 3>>>>,
      <<<<Txt_abxcde, 5>>, <<Txt_A, 3>>>>,          \* a liked title and a disliked one
      <<<<Txt_a, 5>>, <<<<"a", "-">>, 5>>,          \* three liked titles, each typed
        <<<<"A", "B", "x", "c", "d", "e">>, 5>>>> } \* in another case than the corpus has

\* the movie lists handed to collaborative_filtering_simple
RatedCorpora == CallCorpora \cup {<<M1, M2, M4>>}

\* the seed titles and the user_ratings handed to hybrid_recommendations
HybridSeeds == {Absent, <<"A">>, <<"z", "z">>}
HybridRatings ==
    { <<>>,
      <<<<Txt_A, 5>>, <<Txt_a, 3>>>>,
      <<<<Txt_abxcde, 5>>, <<Txt_A, 3>>>> }

\* the movie lists handed to hybrid_recommendations: the list the engine was
\* prepared with, as the application does, or another one
HybridCorpora(self) ==
    {IF self.movies_df.some THEN self.movies_df.val ELSE <<>>, <<M1, M2, M4>>}

\* the movies the user can put on the watchlist: two search results with the
\* same id under different titles, and a third movie
Listed ==
    { [id |-> 1, title |-> Txt_A], [id |-> 1, title |-> Txt_a],
      [id |-> 2, title |-> Txt_abxcde] }

\* the ratings handed to mark_as_watched: none, and values of the slider
\* (0.0 to 10.0)
GivenRatings == {NoneV, Some(0), Some(3), Some(5)}

\* the watched list is followed up to this length
MaxWatched == 2

\* the movies handed to the filters: years 12, 2 and 0, a date without a
\* dash, dates int() does not take ('x-1', '-1'), an empty date, a date of
\* None and no date; ratings from 0 to 10 and none; runtimes known, 0, None
\* and missing
FilterMovies ==
    { [title |-> Txt_A, release_date |-> <<"1", "2", "-", "0", "1">>,
       vote_average |-> 7, runtime |-> <<120>>],
      [title |-> Txt_a, release_date |-> <<"2", "-", "1", "0">>,
       vote_average |-> 8, runtime |-> <<90>>],
      [title |-> Txt_be, release_date |-> <<"0", "-", "1">>,
       vote_average |-> 10, runtime |-> <<>>],
      [title |-> Txt_abxcde, release_date |-> <<"1", "2">>,
       vote_average |-> 0, runtime |-> <<0>>],
      [title |-> Txt_A_dash, release_date |-> <<"x", "-", "1">>, vote_average |-> 5],
      [title |-> Txt_xy_zz, release_date |-> <<"-", "1">>, runtime |-> <<60>>],
      [title |-> Txt_zz_abcde, release_date |-> <<>>],
      [title |-> Txt_xy_abcdea, release_date |-> Absent],
      [title |-> Txt_xy_abcdeazz] }

\* the lists of at most MaxFiltered of them
MaxFiltered == 2
FilterCorpora == UNION {[1..len -> FilterMovies] : len \in 0..MaxFiltered}

\* the bounds of the three filters; NoneV is a bound not given
YearBounds == {NoneV, Some(0), Some(2), Some(12)}
RatingBounds == {NoneV, Some(0), Some(8), Some(10)}
RuntimeBounds == {NoneV, Some(0), Some(90), Some(120)}

\* fetch_and_cache_movies(5): the cached movie list
MoviesCache == SubSeq(Catalogue, 1, Min(MaxCorpus, Len(Catalogue)))

\* what the tabs' search for the typed title finds: nothing (<<>>) or a movie,
\* here one of the cached ones
SearchResults == {<<>>} \cup {<<MoviesCache[k]>> : k \in 1..Len(MoviesCache)}

\* the titles typed on the content tab and on the hybrid tab, where the field
\* may stay empty
TypedTitles == {<<"A">>, <<"z", "z">>}
TypedOrEmpty == TypedTitles \cup {<<>>}

\* the positions of the sentiment tab's slider, in thousandths
SliderSentiments == {200, 600}

\* the manager when the recommendation page is opened: new, or after two
\* movies were put on the watchlist and marked as watched with ratings 5 and 3
RatedManagers ==
    { [watchlist |-> <<>>, watched |-> <<>>, ratings |-> <<>>],
      [watchlist |-> <<>>,
       watched |-> <<[id |-> 1, title |-> Txt_A], [id |-> 2, title |-> Txt_abxcde]>>,
       ratings |-> <<<<Txt_A, 5>>, <<Txt_abxcde, 3>>>>] }

\* the reviews of the movies handed to analyze_movie_sentiment: none, one
\* without content, some with content, one without content before one with,
\* six of which the sixth would raise the mean, five without content before
\* one with
ReviewLists ==
    { <<>>,
      <<<<>>>>,
      <<<<600>>>>,
      <<<<800>>, <<400>>>>,
      <<<<>>, <<-400>>>>,
      <<<<100>>, <<100>>, <<100>>, <<100>>, <<100>>, <<700>>>>,
      <<<<>>, <<>>, <<>>, <<>>, <<>>, <<700>>>> }

\* the polarities of their overviews: the four thresholds of the label, values
\* next to them and the ends of the range
OverviewPolarities == {-1000, -310, -300, -100, -90, 0, 100, 110, 300, 310, 1000}

\* the movies handed to analyze_movie_sentiment
ScoredMovies ==
    {Movie(9, Txt_A, overview, 7, pol, revs) :
         overview \in {Txt_xy_zz, <<>>, Absent},
         pol \in OverviewPolarities,
         revs \in ReviewLists}

\* the min_sentiment values, in thousandths
MinSentiments == {0, 200}

\* Raw items as the data source hands them over, each a dict with the fields
\* it happens to have.  Named persons and genres are dicts with a 'name'.
Named(name) == [name |-> name]
Person(name, job) == [name |-> name, job |-> job]
SixActors ==
    <<Named(<<"a">>), Named(<<"b">>), Named(<<"c">>), Named(<<"d">>), Named(<<"e">>),
      Named(<<"z">>)>>

Item_plain == [title |-> Txt_A, overview |-> Txt_xy_zz]
Item_genres ==
    [title |-> Txt_A, overview |-> Txt_xy_zz,
     genres |-> ListCell(<<DictCell(Named(<<"x", "y">>)), StrCell(<<"B">>)>>)]
Item_genre_string == [title |-> Txt_A, genres |-> StrCell(<<"a", "b">>)]
Item_no_genres == [title |-> Txt_A, genres |-> ListCell(<<>>)]
Item_flat_cast ==
    [title |-> Txt_A, overview |-> Txt_xy_zz,
     cast |-> ListCell(<<DictCell(Named(<<"a">>)), StrCell(<<"b">>),
                         DictCell([id |-> 3]), StrCell(<<"d">>),
                         DictCell(Named(<<"e">>)), StrCell(<<"z">>)>>)]
Item_credits ==
    [title |-> Txt_A,
     credits |-> DictCell([cast |-> SixActors,
                           crew |-> <<Person(<<"z", "z">>, "Writer"),
                                      Person(<<"b", "e">>, "Director"),
                                      Person(<<"x", "y">>, "Director")>>])]
Item_director == [title |-> Txt_A, director |-> StrCell(<<"B">>)]
Item_keywords ==
    [title |-> Txt_A,
     keywords |-> DictCell([keywords |-> <<Named(<<"a", "b">>), Named(<<"z">>)>>])]
Item_untitled == [overview |-> Txt_xy_zz]
Item_genre_unnamed == [title |-> Txt_A, genres |-> ListCell(<<DictCell([id |-> 1])>>)]
Item_actor_unnamed ==
    [title |-> Txt_A, credits |-> DictCell([cast |-> <<[id |-> 1]>>])]

RawItems ==
    {Item_plain, Item_genres, Item_genre_string, Item_no_genres, Item_flat_cast,
     Item_credits, Item_director, Item_keywords, Item_untitled, Item_genre_unnamed,
     Item_actor_unnamed}

\* corpora of one or two raw items, alike or not in the fields they have
MaxRaw == 2
RawCorpora ==
    UNION {[1..len -> RawItems] : len \in 1..MaxRaw}

(* ------------------------------- actions ------------------------------ *)

Call(op, title, user_ratings, movies, n, min_sentiment, out, idx, prev) ==
    With(out, LAMBDA o :
         [op |-> op, title |-> title, user_ratings |-> user_ratings, movies |-> movies,
          n |-> n, min_sentiment |-> min_sentiment,
          raised |-> o.raised, result |-> o.result, idx |-> idx, prev |-> prev])

\* no call has returned since the caller took the last result
Idle == Call("idle", <<>>, <<>>, <<>>, 0, 0, Returned(<<>>), -1, NoneV)

\* the tabs' result lists as the application starts (app.py, lines 213-220)
NoResults ==
    [ai_content_results |-> <<>>, ai_sentiment_results |-> <<>>,
     ai_collab_results |-> <<>>, ai_hybrid_results |-> <<>>]

Init ==
    /\ movies_df = NoneV
    /\ tfidf_vectorizer = NoneV
    /\ tfidf_matrix = NoneV
    /\ argsort_ties \in {"stable", "reversed"}
    /\ last_prepare = "none"
    /\ last = Idle
    /\ watchlist = <<>>
    /\ watched = <<>>
    /\ ratings = <<>>
    /\ session = NoResults

\* engine.prepare_data(movies)
Prepare ==
    \E movies \in Corpora :
        LET r == PrepareData(Self, movies)
        IN  /\ last = Idle
            /\ movies_df' = r.self.movies_df
            /\ tfidf_vectorizer' = r.self.tfidf_vectorizer
            /\ tfidf_matrix' = r.self.tfidf_matrix
            /\ last_prepare' = IF movies = <<>> THEN "empty" ELSE "nonempty"
            /\ last' = Call("prepare", <<>>, <<>>, movies, 0, 0,
                            [raised |-> r.raised, result |-> <<>>], -1, NoneV)
            /\ UNCHANGED <<argsort_ties, manager, session>>

\* RecommendByTitle with the table narrowed to the exact matches in place
\* (self.movies_df = self.movies_df[mask])
RecommendByTitle_Narrowing ==
    \E movie_title \in Queries, n \in Ns :
        /\ \/ last = Idle
           \/ (last.op = "content" /\ last.title = movie_title /\ last.n = n)
        /\ last' = Call("content", movie_title, <<>>, <<>>, n, 0,
                        ContentBasedRecommendations(Self, argsort_ties, movie_title, n),
                        SeedIndex(Self, movie_title),
                        IF last = Idle THEN NoneV ELSE Some(last.result))
        /\ movies_df' =
               IF movies_df.some /\ ExactMatch(movies_df.val, movie_title) # {}
               THEN Some(SelectSeq(movies_df.val,
                                   LAMBDA m : LowerStr(m.title) = LowerStr(movie_title)))
               ELSE movies_df
        /\ UNCHANGED <<tfidf_vectorizer, tfidf_matrix, argsort_ties, last_prepare, manager, session>>

\* engine.content_based_recommendations(movie_title, n), as a first call or
\* as the same call made again right after it returned
RecommendByTitle ==
    \E movie_title \in Queries, n \in Ns :
        /\ \/ last = Idle
           \/ (last.op = "content" /\ last.title = movie_title /\ last.n = n)
        /\ last' = Call("content", movie_title, <<>>, <<>>, n, 0,
                        ContentBasedRecommendations(Self, argsort_ties, movie_title, n),
                        SeedIndex(Self, movie_title),
                        IF last = Idle THEN NoneV ELSE Some(last.result))
        /\ UNCHANGED <<movies_df, tfidf_vectorizer, tfidf_matrix, argsort_ties,
                       last_prepare, manager, session>>

\* engine.content_based_recommendations(movie_title, n) with a seed title that
\* has no letter or digit
RecommendByBlankTitle ==
    \E movie_title \in BlankSeeds, n \in Ns :
        /\ last = Idle
        /\ last' = Call("content", movie_title, <<>>, <<>>, n, 0,
                        ContentBasedRecommendations(Self, argsort_ties, movie_title, n),
                        SeedIndex(Self, movie_title), NoneV)
        /\ UNCHANGED <<movies_df, tfidf_vectorizer, tfidf_matrix, argsort_ties,
                       last_prepare, manager, session>>

\* engine.fuzzy_content_recommendations(movie_title, movies, n)
RecommendByKeywords ==
    \E movie_title \in KeywordQueries, movies \in KeywordCorpora, n \in Ns :
        /\ last = Idle
        /\ last' = Call("keywords", movie_title, <<>>, movies, n, 0,
                        FuzzyContentRecommendations(movie_title, movies, n), -1, NoneV)
        /\ UNCHANGED <<movies_df, tfidf_vectorizer, tfidf_matrix, argsort_ties,
                       last_prepare, manager, session>>

\* engine.sentiment_based_recommendations(movies, min_sentiment, n)
RecommendBySentiment ==
    \E movies \in CallCorpora, min_sentiment \in MinSentiments, n \in Ns :
        /\ last = Idle
        /\ last' = Call("sentiment", <<>>, <<>>, movies, n, min_sentiment,
                        SentimentBasedRecommendations(movies, min_sentiment, n),
                        -1, NoneV)
        /\ UNCHANGED <<movies_df, tfidf_vectorizer, tfidf_matrix, argsort_ties,
                       last_prepare, manager, session>>

\* engine.collaborative_filtering_simple(user_ratings, all_movies, n)
RecommendCollaborative ==
    \E user_ratings \in RatingSets, all_movies \in RatedCorpora, n \in Ns :
        /\ last = Idle
        /\ last' = Call("collaborative", <<>>, user_ratings, all_movies, n, 0,
                        CollaborativeFilteringSimple(Self, argsort_ties, user_ratings,
                                                     all_movies, n),
                        -1, NoneV)
        /\ UNCHANGED <<movies_df, tfidf_vectorizer, tfidf_matrix, argsort_ties,
                       last_prepare, manager, session>>

\* analyze_movie_sentiment(movie); the returned dict is the one element of the
\* result
AnalyzeSentiment ==
    \E movie \in ScoredMovies :
        /\ last = Idle
        /\ last' = Call("analyze", <<>>, <<>>, <<movie>>, 0, 0,
                        Returned(<<AnalyzeMovieSentiment(movie)>>), -1, NoneV)
        /\ UNCHANGED <<movies_df, tfidf_vectorizer, tfidf_matrix, argsort_ties,
                       last_prepare, manager, session>>

\* prepare_data(movies) up to the combined_features column (lines 46-52):
\* the column is the result, or the call raises
Compose ==
    \E movies \in RawCorpora :
        /\ last = Idle
        /\ last' = Call("compose", <<>>, <<>>, movies, 0, 0, ComposeAll(movies),
                        -1, NoneV)
        /\ UNCHANGED <<movies_df, tfidf_vectorizer, tfidf_matrix, argsort_ties,
                       last_prepare, manager, session>>

\* engine.hybrid_recommendations(movie_title, user_ratings, all_movies, n)
RecommendHybrid ==
    \E movie_title \in HybridSeeds, user_ratings \in HybridRatings,
       all_movies \in HybridCorpora(Self), n \in Ns :
        /\ last = Idle
        /\ last' = Call("hybrid", movie_title, user_ratings, all_movies, n, 0,
                        HybridRecommendations(Self, argsort_ties, movie_title,
                                              user_ratings, all_movies, n),
                        -1, NoneV)
        /\ UNCHANGED <<movies_df, tfidf_vectorizer, tfidf_matrix, argsort_ties,
                       last_prepare, manager, session>>

\* watchlist_manager.add_to_watchlist(movie); the value returned is the one
\* element of the result
AddMovie ==
    \E movie \in Listed :
        LET r == AddToWatchlist(Manager, movie)
        IN  /\ last = Idle
            /\ watchlist' = r.self.watchlist
            /\ watched' = r.self.watched
            /\ ratings' = r.self.ratings
            /\ last' = Call("add", <<>>, <<>>, <<movie>>, 0, 0, Returned(<<r.result>>),
                            movie.id, NoneV)
            /\ UNCHANGED <<movies_df, tfidf_vectorizer, tfidf_matrix, argsort_ties,
                           last_prepare, session>>

\* watchlist_manager.remove_from_watchlist(movie_id); idx is the movie_id
RemoveMovie ==
    \E movie_id \in {movie.id : movie \in Listed} :
        LET r == RemoveFromWatchlist(Manager, movie_id)
        IN  /\ last = Idle
            /\ watchlist' = r.watchlist
            /\ watched' = r.watched
            /\ ratings' = r.ratings
            /\ last' = Call("remove", <<>>, <<>>, <<>>, 0, 0, Returned(<<>>),
                            movie_id, NoneV)
            /\ UNCHANGED <<movies_df, tfidf_vectorizer, tfidf_matrix, argsort_ties,
                           last_prepare, session>>

\* watchlist_manager.mark_as_watched(movie_id, rating); idx is the movie_id
\* and prev the rating
MarkWatched ==
    \E movie_id \in {movie.id : movie \in Listed}, rating \in GivenRatings :
        LET r == MarkAsWatched(Manager, movie_id, rating)
        IN  /\ last = Idle
            /\ Len(watched) < MaxWatched
            /\ watchlist' = r.watchlist
            /\ watched' = r.watched
            /\ ratings' = r.ratings
            /\ last' = Call("mark", <<>>, <<>>, <<>>, 0, 0, Returned(<<>>),
                            movie_id, rating)
            /\ UNCHANGED <<movies_df, tfidf_vectorizer, tfidf_matrix, argsort_ties,
                           last_prepare, session>>

\* MovieFilters.filter_by_year(movies, min_year, max_year); prev is the pair of
\* bounds
FilterYear ==
    \E movies \in FilterCorpora, min_year \in YearBounds, max_year \in YearBounds :
        /\ last = Idle
        /\ last' = Call("year", <<>>, <<>>, movies, 0, 0,
                        FilterByYear(movies, min_year, max_year), -1,
                        Some([min |-> min_year, max |-> max_year]))
        /\ UNCHANGED <<movies_df, tfidf_vectorizer, tfidf_matrix, argsort_ties,
                       last_prepare, manager, session>>

\* MovieFilters.filter_by_rating(movies, min_rating, max_rating); prev is the pair of
\* bounds
FilterRating ==
    \E movies \in FilterCorpora, min_rating \in RatingBounds, max_rating \in RatingBounds :
        /\ last = Idle
        /\ last' = Call("rating", <<>>, <<>>, movies, 0, 0,
                        FilterByRating(movies, min_rating, max_rating), -1,
                        Some([min |-> min_rating, max |-> max_rating]))
        /\ UNCHANGED <<movies_df, tfidf_vectorizer, tfidf_matrix, argsort_ties,
                       last_prepare, manager, session>>

\* MovieFilters.filter_by_runtime(movies, min_runtime, max_runtime); prev is the pair of
\* bounds
FilterRun ==
    \E movies \in FilterCorpora, min_runtime \in RuntimeBounds, max_runtime \in RuntimeBounds :
        /\ last = Idle
        /\ last' = Call("runtime", <<>>, <<>>, movies, 0, 0,
                        FilterByRuntime(movies, min_runtime, max_runtime), -1,
                        Some([min |-> min_runtime, max |-> max_runtime]))
        /\ UNCHANGED <<movies_df, tfidf_vectorizer, tfidf_matrix, argsort_ties,
                       last_prepare, manager, session>>

\* the engine after the tab's prepare_data(movies)
Prepared(movies) == PrepareData(Self, movies)

\* the record of a click on a tab's button: prepare_data raised or the tab's
\* call raised, or the call returned its recommendations
TabCall(op, title, prepared, outcome) ==
    Call(op, title, ratings, MoviesCache, 10, 0,
         IF prepared.raised \/ outcome.raised THEN Raised ELSE Returned(outcome.result),
         -1, NoneV)

\* the content tab's button (app.py, lines 800-843)
ContentTab ==
    \E movie_title \in TypedTitles, found_movie \in SearchResults :
        LET search_title == IF found_movie # <<>> THEN found_movie[1].title
                            ELSE movie_title
            prepared == Prepared(MoviesCache)
            outcome == ContentTabOutcome(prepared.self, argsort_ties, movie_title,
                                         search_title, MoviesCache)
        IN  /\ last = Idle
            /\ movies_df' = prepared.self.movies_df
            /\ tfidf_vectorizer' = prepared.self.tfidf_vectorizer
            /\ tfidf_matrix' = prepared.self.tfidf_matrix
            /\ last_prepare' = "nonempty"
            /\ last' = TabCall("content_tab", movie_title, prepared,
                               [raised |-> outcome.raised,
                                result |-> IF outcome.raised THEN <<>>
                                           ELSE outcome.recommendations])
            /\ session' = IF prepared.raised \/ outcome.raised THEN session
                          ELSE [session EXCEPT !.ai_content_results = outcome.results]
            /\ UNCHANGED <<argsort_ties, manager>>

\* the sentiment tab's button (lines 861-872); it does not prepare the engine
SentimentTab ==
    \E min_sentiment \in SliderSentiments :
        LET outcome == SentimentBasedRecommendations(MoviesCache, min_sentiment, 15)
        IN  /\ last = Idle
            /\ last' = Call("sentiment_tab", <<>>, <<>>, MoviesCache, 15, min_sentiment,
                            outcome, -1, NoneV)
            /\ session' = [session EXCEPT !.ai_sentiment_results =
                               Replaced(@, outcome.result, MoviesCache)]
            /\ UNCHANGED <<movies_df, tfidf_vectorizer, tfidf_matrix, argsort_ties,
                           last_prepare, manager>>

\* the collaborative tab's button when there are ratings (lines 896-910);
\* without ratings it shows a warning and does nothing
CollaborativeTab ==
    LET prepared == Prepared(MoviesCache)
        outcome == CollaborativeFilteringSimple(prepared.self, argsort_ties, ratings,
                                                MoviesCache, 10)
    IN  /\ last = Idle
        /\ ratings # <<>>
        /\ movies_df' = prepared.self.movies_df
        /\ tfidf_vectorizer' = prepared.self.tfidf_vectorizer
        /\ tfidf_matrix' = prepared.self.tfidf_matrix
        /\ last_prepare' = "nonempty"
        /\ last' = TabCall("collab_tab", <<>>, prepared, outcome)
        /\ session' = IF prepared.raised \/ outcome.raised THEN session
                      ELSE [session EXCEPT !.ai_collab_results =
                                Replaced(@, outcome.result, MoviesCache)]
        /\ UNCHANGED <<argsort_ties, manager>>

\* the hybrid tab's button (lines 928-962)
HybridTab ==
    \E typed \in TypedOrEmpty, found_movie \in SearchResults :
        LET movie_for_hybrid == IF typed # <<>> /\ found_movie # <<>>
                                THEN found_movie[1].title ELSE typed
            prepared == Prepared(MoviesCache)
            outcome == HybridRecommendations(
                           prepared.self, argsort_ties,
                           IF movie_for_hybrid # <<>> THEN movie_for_hybrid ELSE Absent,
                           ratings, MoviesCache, 10)
        IN  /\ last = Idle
            /\ movies_df' = prepared.self.movies_df
            /\ tfidf_vectorizer' = prepared.self.tfidf_vectorizer
            /\ tfidf_matrix' = prepared.self.tfidf_matrix
            /\ last_prepare' = "nonempty"
            /\ last' = TabCall("hybrid_tab", movie_for_hybrid, prepared, outcome)
            /\ session' = IF prepared.raised \/ outcome.raised THEN session
                          ELSE [session EXCEPT !.ai_hybrid_results =
                                    Replaced(@, outcome.result, MoviesCache)]
            /\ UNCHANGED <<argsort_ties, manager>>

\* the caller takes the returned value (or the exception) and goes on
TakeResult ==
    /\ last # Idle
    /\ last' = Idle
    /\ UNCHANGED <<movies_df, tfidf_vectorizer, tfidf_matrix, argsort_ties,
                   last_prepare, manager, session>>

\* the engine with its index: prepare_data and the calls that read the index
Next ==
    \/ Prepare
    \/ RecommendByTitle
    \/ RecommendCollaborative
    \/ TakeResult

Spec == Init /\ [][Next]_vars

\* the calls that read nothing but their arguments
ScoringNext ==
    \/ RecommendByKeywords
    \/ RecommendBySentiment
    \/ AnalyzeSentiment
    \/ TakeResult

ScoringSpec == Init /\ [][ScoringNext]_vars
\* the engine with its index and the hybrid call
HybridNext ==
    \/ Prepare
    \/ RecommendHybrid
    \/ TakeResult

HybridSpec == Init /\ [][HybridNext]_vars

\* the watchlist manager
ManagerNext ==
    \/ AddMovie
    \/ RemoveMovie
    \/ MarkWatched
    \/ TakeResult

ManagerSpec == Init /\ [][ManagerNext]_vars

\* the filters
FilterNext ==
    \/ FilterYear
    \/ FilterRating
    \/ FilterRun
    \/ TakeResult

FilterSpec == Init /\ [][FilterNext]_vars

\* the recommendation page: the application with a manager that has ratings
\* or not, and the four tabs
AppInit ==
    /\ movies_df = NoneV
    /\ tfidf_vectorizer = NoneV
    /\ tfidf_matrix = NoneV
    /\ argsort_ties \in {"stable", "reversed"}
    /\ last_prepare = "none"
    /\ last = Idle
    /\ \E m \in RatedManagers :
           watchlist = m.watchlist /\ watched = m.watched /\ ratings = m.ratings
    /\ session = NoResults

AppNext ==
    \/ ContentTab
    \/ SentimentTab
    \/ CollaborativeTab
    \/ HybridTab
    \/ TakeResult

AppSpec == AppInit /\ [][AppNext]_vars

\* the engine with its index, asked with blank seed titles
BlankSeedNext ==
    \/ Prepare
    \/ RecommendByBlankTitle
    \/ TakeResult

BlankSeedSpec == Init /\ [][BlankSeedNext]_vars

\* the feature composer on raw items
ComposerNext ==
    \/ Compose
    \/ TakeResult

ComposerSpec == Init /\ [][ComposerNext]_vars



(* ------------------------------- claims ------------------------------- *)

\* the table and the matrix are those of one successful prepare_data call
IndexBuilt ==
    /\ movies_df.some
    /\ tfidf_matrix.some
    /\ ~TextIndex[movies_df.val].raised
    /\ tfidf_matrix.val = TextIndex[movies_df.val].matrix

\* the position in the table of the movie with this id
PosOf(df, id) == CHOOSE i \in 1..Len(df) : df[i].id = id

\* the titles are equal up to letter case
SameUpToCase(s, t) == LowerStr(s) = LowerStr(t)

\* C1: while no non-empty corpus was prepared, or the latest prepare_data call
\* got an empty corpus, recommend_by_title and recommend_collaborative return
\* the empty list and do not raise.
C1_EmptyWithoutIndex ==
    (last.op \in {"content", "collaborative"} /\ last_prepare \in {"none", "empty"})
        => (~last.raised /\ last.result = <<>>)

\* C2: in every state a call can observe, the table and the matrix come from
\* the same prepare_data call: both absent, or the matrix is the one built from
\* the table's corpus, row for row.
C2_IndexAtomic ==
    /\ movies_df.some <=> tfidf_matrix.some
    /\ movies_df.some =>
           /\ Len(tfidf_matrix.val) = Len(movies_df.val)
           /\ tfidf_matrix.val = TextIndex[movies_df.val].matrix

\* C3: recommend_by_title never returns the item its seed title resolved to.
C3_SelfExclusion ==
    (last.op = "content" /\ IndexBuilt /\ ~last.raised /\ last.idx # -1)
        => \A k \in 1..Len(last.result) :
               last.result[k][1] # movies_df.val[last.idx].id

\* C4: recommend_by_title returns at most max(n, 0) results, so none for n <= 0.
C4_AtMostN ==
    (last.op = "content" /\ IndexBuilt /\ ~last.raised)
        => Len(last.result) <= Max(last.n, 0)

\* C5: for n <= 0, recommend_by_sentiment, recommend_collaborative and
\* recommend_by_keywords return the empty list and do not raise.
C5_NonPositiveNEmpty ==
    (last.op \in {"sentiment", "collaborative", "keywords"} /\ last.n <= 0)
        => (~last.raised /\ last.result = <<>>)

\* C6: a seed that equals, up to letter case, the non-empty title of an item of
\* the prepared corpus resolves with score 1.0 to an item whose title equals
\* the seed up to letter case, and that item is the one ranked from.
C6_ExactTitleResolves ==
    (/\ last.op = "content"
     /\ IndexBuilt
     /\ \E i \in 1..Len(movies_df.val) :
            movies_df.val[i].title # <<>> /\ SameUpToCase(movies_df.val[i].title, last.title))
        => LET seed == ResolveSeed(Self, last.title)
           IN  /\ FracEq(seed.score, <<1, 1>>)
               /\ seed.idx \in 1..Len(movies_df.val)
               /\ SameUpToCase(movies_df.val[seed.idx].title, last.title)
               /\ last.idx = seed.idx

\* the seed "a-" found at the second row, behind a title with the same
\* normalized form "a"
C6_Witness ==
    /\ last.op = "content"
    /\ IndexBuilt
    /\ last.title = <<"a", "-">>
    /\ Len(movies_df.val) >= 2
    /\ movies_df.val[1].title = Txt_A
    /\ movies_df.val[2].title = Txt_A_dash
    /\ last.idx = 2

\* C7: when no title matches the seed exactly (in case or in normalized form)
\* and some title contains the normalized seed or is contained in it, the
\* resolver returns such a title with score exactly 0.9.
C7_ContainmentBeforeFuzzy ==
    LET df == movies_df.val
        q == NormalizeTitle(last.title)
        related(i) == /\ df[i].title # <<>>
                      /\ \/ Contains(q, NormalizeTitle(df[i].title))
                         \/ Contains(NormalizeTitle(df[i].title), q)
    IN  (/\ last.op = "content"
         /\ IndexBuilt
         /\ \A i \in 1..Len(df) : /\ ~SameUpToCase(df[i].title, last.title)
                                  /\ NormalizeTitle(df[i].title) # q
         /\ \E i \in 1..Len(df) : related(i))
            => LET seed == ResolveSeed(Self, last.title)
               IN  /\ FracEq(seed.score, <<9, 10>>)
                   /\ seed.idx \in 1..Len(df)
                   /\ related(seed.idx)

\* C8: recommend_by_title returns the empty list when the seed resolves with a
\* score below 0.5, and ranks from the resolved item when the score is 0.5 or
\* more.
C8_Threshold ==
    (last.op = "content" /\ IndexBuilt)
        => LET seed == ResolveSeed(Self, last.title)
           IN  /\ FracLt(seed.score, <<1, 2>>)
                      => (last.idx = -1 /\ ~last.raised /\ last.result = <<>>)
               /\ ~FracLt(seed.score, <<1, 2>>)
                      => (last.idx = seed.idx /\ seed.idx \in 1..Len(movies_df.val))

\* a seed resolved with score exactly 0.5 was ranked from, with a result
C8_Witness ==
    /\ last.op = "content"
    /\ IndexBuilt
    /\ FracEq(ResolveSeed(Self, last.title).score, <<1, 2>>)
    /\ last.idx # -1
    /\ last.result # <<>>

\* C9: the list recommend_by_title returns for n >= 1 is in non-increasing score order,
\* items of equal score are in corpus order, and an item left out by the cut at
\* n with the score of a returned item stands later in the corpus than it.
\* (Stated for the calls that did not return the seed itself.)
C9_StableOrder ==
    LET df == movies_df.val
        r == last.result
        returned == {r[k][1] : k \in 1..Len(r)}
        sims == CosineSimilarities(tfidf_matrix.val[last.idx], tfidf_matrix.val)
    IN  (/\ last.op = "content" /\ IndexBuilt /\ ~last.raised
         /\ last.idx # -1 /\ last.n >= 1
         /\ df[last.idx].id \notin returned)
            => /\ \A k, l \in 1..Len(r) :
                      k < l => \/ r[k][2] > r[l][2]
                               \/ (r[k][2] = r[l][2]
                                   /\ PosOf(df, r[k][1]) < PosOf(df, r[l][1]))
               /\ \A k \in 1..Len(r), i \in 1..Len(df) :
                      (i # last.idx /\ df[i].id \notin returned /\ sims[i] = r[k][2])
                          => PosOf(df, r[k][1]) < i

\* C10: a recommend_by_title call leaves the table, the vectorizer and the
\* matrix as they were, and the same call made again right away returns what
\* the first one returned.
C10_NoSideEffects ==
    [][(last'.op = "content" /\ last' # last)
           => /\ movies_df' = movies_df
              /\ tfidf_vectorizer' = tfidf_vectorizer
              /\ tfidf_matrix' = tfidf_matrix
              /\ last.op = "content"
                     => (last'.result = last.result /\ last'.raised = last.raised)]_vars

\* a call made again after one that returned results
C10_Witness ==
    /\ last.op = "content"
    /\ last.prev.some
    /\ last.result # <<>>

\* C11: right after prepare_data(C), a second prepare_data(C) changes no
\* ranking: for every seed and n, recommend_by_title on the engine prepared
\* twice returns what it returns on the engine prepared once, whatever
\* prepare_data calls came before.
C11_PrepareIdempotent ==
    last.op = "prepare"
        => With(PrepareData(Self, last.movies).self, LAMBDA again :
                \A movie_title \in Queries, n \in Ns :
                    ContentBasedRecommendations(again, argsort_ties, movie_title, n)
                        = ContentBasedRecommendations(Self, argsort_ties, movie_title, n))

\* a corpus of several items was prepared and gives a ranking to compare
C11_Witness ==
    /\ last.op = "prepare"
    /\ ~last.raised
    /\ IndexBuilt
    /\ Len(last.movies) >= 2
    /\ \E movie_title \in Queries, n \in Ns :
           ContentBasedRecommendations(Self, argsort_ties, movie_title, n).result # <<>>

\* the (title, score) pairs the runs of recommend_by_title seeded on the given
\* titles hand to a recommend_collaborative call: one pair for each returned
\* id that all_movies knows
Received(seeds, all_movies, n) ==
    UNION { LET similar == ContentBasedRecommendations(Self, argsort_ties, t, n).result
            IN  { <<GetText(MovieById(all_movies, similar[k][1])[1].title), similar[k][2]>> :
                      k \in {j \in 1..Len(similar) :
                                 MovieById(all_movies, similar[j][1]) # <<>>} }
            : t \in seeds }

\* the titles of user_ratings rated at least `least`
RatedAtLeast(user_ratings, least) ==
    {user_ratings[k][1] : k \in {j \in 1..Len(user_ratings) : user_ratings[j][2] >= least}}

\* the keys of user_ratings
RatedTitles(user_ratings) == {user_ratings[k][1] : k \in 1..Len(user_ratings)}

\* C12: recommend_collaborative called with an empty user_ratings returns the
\* empty list and does not raise, whatever the engine holds and whatever n is.
C12_NoRatingsNoResults ==
    (last.op = "collaborative" /\ last.user_ratings = <<>>)
        => (~last.raised /\ last.result = <<>>)

\* the call was made with no ratings on a prepared engine, with movies and n >= 1
C12_Witness ==
    /\ last.op = "collaborative"
    /\ last.user_ratings = <<>>
    /\ IndexBuilt
    /\ Len(movies_df.val) >= 2
    /\ Len(last.movies) >= 2
    /\ last.n >= 1

\* C13: no title that is a key of the call's user_ratings, whatever its rating,
\* is in the list recommend_collaborative returns.
C13_RatedExcluded ==
    last.op = "collaborative"
        => \A k \in 1..Len(last.result) :
               last.result[k][1] \notin RatedTitles(last.user_ratings)

\* a title rated below 4 was handed over by the run of a liked title, and the
\* call returned other titles
C13_Witness ==
    /\ last.op = "collaborative"
    /\ last.result # <<>>
    /\ \E p \in Received(RatedAtLeast(last.user_ratings, 4), last.movies, last.n) :
           p[1] \in RatedTitles(last.user_ratings) \ RatedAtLeast(last.user_ratings, 4)

\* the pairs of Received that recommend_collaborative may return: those with a
\* title that is not a key of user_ratings
Candidates(seeds, user_ratings, all_movies, n) ==
    {p \in Received(seeds, all_movies, n) :
         p[1] # <<>> /\ p[1] \notin RatedTitles(user_ratings)}

\* C14: the seeds of a recommend_collaborative call are exactly the titles
\* rated 4 or more, each run with the call's n: without such a title the result
\* is empty, every returned (title, score) was handed over by the run of such a
\* title, and, when the list is shorter than n, every candidate of every such
\* run is in it with at least the score that run gave it.
C14_LikedAreSeeds ==
    LET liked == RatedAtLeast(last.user_ratings, 4)
        candidates == Candidates(liked, last.user_ratings, last.movies, last.n)
        r == last.result
    IN  (last.op = "collaborative" /\ ~last.raised)
            => /\ liked = {} => r = <<>>
               /\ \A k \in 1..Len(r) : <<r[k][1], r[k][2]>> \in candidates
               /\ (last.n >= 1 /\ Len(r) < last.n)
                      => \A p \in candidates :
                             \E k \in 1..Len(r) : r[k][1] = p[1] /\ r[k][2] >= p[2]

\* a returned pair came from the run of a title rated exactly 4 and from no
\* other liked title's run
C14_Witness ==
    /\ last.op = "collaborative"
    /\ ~last.raised
    /\ \E t \in RatedAtLeast(last.user_ratings, 4) \ RatedAtLeast(last.user_ratings, 5) :
       \E k \in 1..Len(last.result) :
           /\ <<last.result[k][1], last.result[k][2]>>
                  \in Candidates({t}, last.user_ratings, last.movies, last.n)
           /\ <<last.result[k][1], last.result[k][2]>>
                  \notin Candidates(RatedAtLeast(last.user_ratings, 4) \ {t},
                                    last.user_ratings, last.movies, last.n)

\* the greatest score the runs of the liked titles gave a title
BestScore(title, user_ratings, all_movies, n) ==
    LET scores == {p[2] : p \in {q \in Candidates(RatedAtLeast(user_ratings, 4),
                                                  user_ratings, all_movies, n) :
                                     q[1] = title}}
    IN  CHOOSE s \in scores : \A t \in scores : t <= s

\* first part of C15: in the list recommend_collaborative returns, the score
\* of each title is the greatest score the runs of the liked titles gave it
C15_ScoreIsMax ==
    (last.op = "collaborative" /\ ~last.raised)
        => \A k \in 1..Len(last.result) :
               last.result[k][2] = BestScore(last.result[k][1], last.user_ratings,
                                             last.movies, last.n)

\* second part of C15: the list recommend_collaborative returns is in
\* non-increasing score order
C15_Sorted ==
    (last.op = "collaborative" /\ ~last.raised)
        => \A k, l \in 1..Len(last.result) :
               k < l => last.result[k][2] >= last.result[l][2]

\* C15: in the list recommend_collaborative returns, the score of each title
\* is the greatest (not the sum) of the scores the runs of the liked titles
\* gave it, the list is in non-increasing score order, and it has at most
\* max(n, 0) entries.
C15_MaxSortedTopN ==
    /\ C15_ScoreIsMax
    /\ C15_Sorted
    /\ (last.op = "collaborative" /\ ~last.raised)
           => Len(last.result) <= Max(last.n, 0)

\* C16: analyze_movie_sentiment gives as overall sentiment the overview's
\* polarity (0 for an empty or missing overview) when none of the first 5
\* reviews has content, and otherwise 0.3 times the overview's polarity plus
\* 0.7 times the mean polarity of the reviews with content among the first 5.
C16_OverallBlend ==
    last.op = "analyze"
        => LET movie == last.movies[1]
               results == last.result[1]
               reviews == movie.review_polarities
               scorable == {i \in 1..Min(5, Len(reviews)) : reviews[i] # <<>>}
               overview_polarity ==
                   IF movie.overview \in {Absent, <<>>} THEN 0 ELSE movie.polarity
           IN  /\ scorable = {} => results.overall_sentiment = overview_polarity
               /\ scorable # {}
                      => 10 * Cardinality(scorable) * results.overall_sentiment
                             = 3 * Cardinality(scorable) * overview_polarity
                               + 7 * SumOver([i \in scorable |-> reviews[i][1]], scorable)

\* a movie with an overview and six reviews with content was analyzed
C16_Witness ==
    /\ last.op = "analyze"
    /\ last.movies[1].overview = Txt_xy_zz
    /\ last.movies[1].polarity = 300
    /\ Len(last.movies[1].review_polarities) = 6
    /\ \A i \in 1..6 : last.movies[1].review_polarities[i] # <<>>
    /\ last.result[1].overall_sentiment = 160

\* the movies of a list whose overall sentiment, as analyze_movie_sentiment
\* gives it, is at least min_sentiment
Qualifying(movies, min_sentiment) ==
    {i \in 1..Len(movies) :
         AnalyzeMovieSentiment(movies[i]).overall_sentiment >= min_sentiment}

\* C17: for n >= 1, recommend_by_sentiment returns min(n, number of movies
\* whose overall sentiment is at least min_sentiment) entries; each is the
\* title and the rating of such a movie with its overall sentiment, as
\* analyze_movie_sentiment gives it; and the list is in descending order of
\* (overall sentiment, rating).
C17_RanksByOverall ==
    LET r == last.result
        qualifying == Qualifying(last.movies, last.min_sentiment)
    IN  (last.op = "sentiment" /\ last.n >= 1)
            => /\ ~last.raised
               /\ Len(r) = Min(last.n, Cardinality(qualifying))
               /\ \A k \in 1..Len(r) :
                      \E i \in qualifying :
                          /\ r[k][1] = last.movies[i].title
                          /\ r[k][2] = AnalyzeMovieSentiment(last.movies[i]).overall_sentiment
                          /\ r[k][3] = last.movies[i].vote_average
               /\ \A k, l \in 1..Len(r) :
                      k < l => \/ r[k][2] > r[l][2]
                               \/ (r[k][2] = r[l][2] /\ r[k][3] >= r[l][3])

\* C18: each overall sentiment gets exactly one label, by strict comparison
\* with the thresholds: above 0.3 very positive, else above 0.1 positive, else
\* above -0.1 neutral, else above -0.3 negative, else very negative; a value on
\* a threshold gets the label of the band below it.
C18_LabelBands ==
    last.op = "analyze"
        => LET overall == last.result[1].overall_sentiment
               label == last.result[1].sentiment_label
           IN  /\ label \in {"Very Positive", "Positive", "Neutral", "Negative",
                             "Very Negative"}
               /\ label = "Very Positive" <=> overall > 300
               /\ label = "Positive" <=> (overall > 100 /\ overall <= 300)
               /\ label = "Neutral" <=> (overall > -100 /\ overall <= 100)
               /\ label = "Negative" <=> (overall > -300 /\ overall <= -100)
               /\ label = "Very Negative" <=> overall <= -300

\* an overall sentiment of exactly 0.3 (an overview of that polarity, no
\* review) was labelled
C18_Witness ==
    /\ last.op = "analyze"
    /\ last.result[1].review_sentiments = <<>>
    /\ last.result[1].overall_sentiment = 300
    /\ last.result[1].sentiment_label = "Positive"

\* C19: for n >= 1, recommend_by_keywords returns min(n, number of eligible
\* movies) entries, each the id of an eligible movie with its score, in
\* non-increasing score order.  The score is 0.3 for each word the normalized
\* query and the normalized title share plus 0.1 for each query word of 4 or
\* more characters found in the overview (here in tenths); a movie is eligible
\* when its score is above 0 and the similarity ratio of its normalized title
\* and the normalized query is below 0.9.
C19_KeywordScore ==
    LET query == NormalizeTitle(last.title)
        r == last.result
        score(m) ==
            3 * Cardinality(WordSet(query) \cap WordSet(NormalizeTitle(GetText(m.title))))
            + Cardinality({w \in WordSet(query) :
                               Len(w) >= 4 /\ Contains(w, LowerStr(GetText(m.overview)))})
        eligible == {i \in 1..Len(last.movies) :
                         /\ score(last.movies[i]) > 0
                         /\ FracLt(Ratio(query, NormalizeTitle(GetText(last.movies[i].title))),
                                   <<9, 10>>)}
    IN  (last.op = "keywords" /\ last.n >= 1)
            => /\ ~last.raised
               /\ Len(r) = Min(last.n, Cardinality(eligible))
               /\ \A k \in 1..Len(r) :
                      \E i \in eligible :
                          r[k] = <<last.movies[i].id, score(last.movies[i])>>
               /\ \A k, l \in 1..Len(r) : k < l => r[k][2] >= r[l][2]

\* compose(item): the composition of the item by itself, from the fields it
\* has
ComposeAlone(item) == ComposeAll(<<item>>)

\* C20: for every item of every corpus, including corpora whose items do not
\* all have the same optional fields, the composer never raises and the
\* item's composed text is made of the fields the item itself has: it is the
\* text composed from the item alone, whose absent fields give no token and
\* whose flat cast list gives its first 5 names.
C20_OwnFieldsOnly ==
    last.op = "compose" =>
        /\ ~last.raised
        /\ \A k \in 1..Len(last.movies) :
               /\ ~ComposeAlone(last.movies[k]).raised
               /\ last.result[k] = ComposeAlone(last.movies[k]).result[1]

\* the titles of a list of (title, score, ...) entries
TitlesOf(scored) == {scored[k][1] : k \in 1..Len(scored)}

\* the titles the Similarity Engine run and the Collaborative Estimator run of
\* the hybrid call in last returned
Surfaced ==
    TitlesOf(ByTitle(SimilarityRun(Self, argsort_ties, last.title, last.n).result,
                     last.movies))
    \cup TitlesOf(CollaborativeRun(Self, argsort_ties, last.user_ratings,
                                   last.movies, last.n).result)

\* C21: every title hybrid_recommendations returns was returned by the
\* Similarity Engine run or by the Collaborative Estimator run of that call, so
\* a title only the sentiment ranking has is never returned; without a seed
\* title and without ratings the result is empty.
C21_OnlySurfaced ==
    (last.op = "hybrid" /\ ~last.raised) =>
        /\ TitlesOf(last.result) \subseteq Surfaced
        /\ (last.title = Absent /\ last.user_ratings = <<>>) => last.result = <<>>

\* a hybrid call returned titles while its sentiment ranking had a title that
\* neither of the other runs returned
C21_Witness ==
    /\ last.op = "hybrid" /\ ~last.raised
    /\ last.result # <<>>
    /\ TitlesOf(SentimentRun(last.movies, last.n).result) \ Surfaced # {}

\* a list of (title, score) with every score multiplied by 0.3, in
\* ten-thousandths
Scaled(scored) ==
    SubSeq([k \in 1..Len(scored) |-> <<scored[k][1], 3 * scored[k][2]>>],
           1, Len(scored))

\* collaborative_filtering_simple with the arguments of the hybrid call in
\* last, asked for its top n
CollaborativeOf(n) ==
    CollaborativeFilteringSimple(Self, argsort_ties, last.user_ratings, last.movies, n)

\* the hybrid call in last was given ratings and no seed title
RatingsOnly ==
    last.op = "hybrid" /\ ~last.raised /\ last.title = Absent /\ last.user_ratings # <<>>

DistinctIds(movies) ==
    \A i, j \in 1..Len(movies) : movies[i].id = movies[j].id => i = j

\* C23: add_to_watchlist returns True and appends the movie exactly when no
\* movie of the watchlist has its id, and otherwise returns False and leaves
\* watchlist, watched and ratings as they are; so after every call of the
\* manager the watchlist holds no two movies with the same id.
C23_AddOnlyNewId ==
    [][/\ (last = Idle /\ last'.op = "add") =>
              LET movie == last'.movies[1]
              IN  IF \A k \in 1..Len(watchlist) : watchlist[k].id # movie.id
                  THEN /\ last'.result = <<TRUE>>
                       /\ watchlist' = Append(watchlist, movie)
                       /\ UNCHANGED <<watched, ratings>>
                  ELSE /\ last'.result = <<FALSE>>
                       /\ UNCHANGED manager
       /\ DistinctIds(watchlist')]_vars

\* add_to_watchlist refused a movie whose id the watchlist has under another
\* title
C23_Witness ==
    /\ last.op = "add"
    /\ last.result = <<FALSE>>
    /\ \E k \in 1..Len(watchlist) :
           watchlist[k].id = last.movies[1].id /\ watchlist[k] # last.movies[1]

\* get_ratings()[title], as the sequence of at most one rating
RatingOf(items, title) ==
    LET found == SelectSeq(items, LAMBDA item : item[1] = title)
    IN  IF found = <<>> THEN <<>> ELSE <<found[1][2]>>

\* C24: mark_as_watched(id, rating), for a movie of the watchlist and a
\* rating from 0 to 10, takes the movie off the watchlist, appends it to
\* watched, and get_ratings() then maps the movie's title to that rating.
C24_MarkStoresRating ==
    [][(/\ last = Idle /\ last'.op = "mark"
        /\ last'.prev.some
        /\ last'.idx \in IdsOf(watchlist))
       => LET movie == SelectSeq(watchlist, LAMBDA m : m.id = last'.idx)[1]
          IN  /\ last'.idx \notin IdsOf(watchlist')
              /\ watched' = Append(watched, movie)
              /\ RatingOf(ratings', movie.title) = <<last'.prev.val>>]_vars

\* C28: after any calls of the manager no movie id is both in the watchlist
\* and in the watched list, and no movie id is twice in the watched list.
C28_WatchedApart ==
    /\ IdsOf(watchlist) \cap IdsOf(watched) = {}
    /\ DistinctIds(watched)

\* value is within the bounds that were given
Within(value, bounds) ==
    /\ bounds.min.some => value >= bounds.min.val
    /\ bounds.max.some => value <= bounds.max.val

\* C25: filter_by_year returns, in input order, exactly the movies that have
\* a release year int() takes and that is >= min_year when min_year is given
\* and <= max_year when max_year is given; a movie with a missing or
\* unparseable release date is not returned and raises nothing.
C25_YearWithinBounds ==
    last.op = "year" =>
        /\ ~last.raised
        /\ last.result = SelectSeq(last.movies, LAMBDA movie :
               HasYear(movie) /\ Within(Year(movie), last.prev.val))

\* C26: filter_by_rating returns, in input order, exactly the movies whose
\* vote_average (0 when missing) is >= min_rating when min_rating is given and
\* <= max_rating when max_rating is given, for bounds from 0 to 10.
C26_RatingWithinBounds ==
    last.op = "rating" =>
        /\ ~last.raised
        /\ last.result = SelectSeq(last.movies, LAMBDA movie :
               Within(VoteAverage(movie), last.prev.val))

\* the movie has a runtime, and it is a number other than 0
KnownRuntime(movie) ==
    "runtime" \in DOMAIN movie /\ movie.runtime # <<>> /\ movie.runtime # <<0>>

\* C27: filter_by_runtime returns, in input order, exactly the movies whose
\* runtime is known and is within the bounds given; a movie with a missing or
\* zero runtime is not returned, whether or not a bound is given.
C27_RuntimeWithinBounds ==
    last.op = "runtime" =>
        /\ ~last.raised
        /\ last.result = SelectSeq(last.movies, LAMBDA movie :
               KnownRuntime(movie) /\ Within(movie.runtime[1], last.prev.val))

\* the result list a tab's request stores to
StoredBy(op) ==
    IF op = "content_tab" THEN session.ai_content_results
    ELSE IF op = "sentiment_tab" THEN session.ai_sentiment_results
    ELSE IF op = "collab_tab" THEN session.ai_collab_results
    ELSE session.ai_hybrid_results

\* C29: on each of the four tabs, after a request whose recommendation call
\* returned no results the tab's result list in the session state is empty:
\* no results of an earlier request are left to be displayed as its outcome.
C29_NoStaleResults ==
    (/\ last.op \in {"content_tab", "sentiment_tab", "collab_tab", "hybrid_tab"}
     /\ ~last.raised
     /\ last.result = <<>>)
    => StoredBy(last.op) = <<>>

\* C30: a seed title whose normalized form is empty is not resolved to a
\* movie: on a prepared corpus without a title equal to the seed up to case,
\* content_based_recommendations returns the empty list for it.
C30_BlankSeedUnresolved ==
    (/\ last.op = "content"
     /\ NormalizeTitle(last.title) = <<>>
     /\ IndexBuilt
     /\ ExactMatch(movies_df.val, last.title) = {})
    => (~last.raised /\ last.result = <<>>)

=============================================================================
